---- MODULE Spec2Model ----
(***************************************************************************)
(* Model of the schema-guided shaping code of cucm.axl.axl (cucmtoolkit).  *)
(*                                                                         *)
(* Part 1: Axl.__extract_template (template extraction).                   *)
(* Part 2: the decorators check_tags and check_arguments.                  *)
(* Part 3: serialize and _tag_serialize_filter (response shaping).         *)
(* Part 4: is_removable, the single-record operations, _chunk_data,        *)
(*         _multithread and the schema tree cache.                         *)
(*                                                                         *)
(* Python values are tagged records; a dict is the sequence of its items   *)
(* in insertion order, a list the sequence of its elements.                *)
(***************************************************************************)
EXTENDS Integers, Sequences, FiniteSets, TLC

(***************************************************************************)
(* Bounds                                                                  *)
(***************************************************************************)
\* longest sequence value placed under the composite field of a template
MaxListLen == 2

(***************************************************************************)
(* Python values                                                           *)
(***************************************************************************)
None == [t |-> "None"]
Nil == [t |-> "Nil"]
IntV(i) == [t |-> "int", i |-> i]
StrV(s) == [t |-> "str", s |-> s]
BoolV(b) == [t |-> "bool", b |-> b]
Item(k, v) == [k |-> k, v |-> v]
Dict(items) == [t |-> "dict", items |-> items]
List(elems) == [t |-> "list", elems |-> elems]
Raised(exc) == [t |-> "raise", exc |-> exc]

IsDict(v) == v.t = "dict"
IsList(v) == v.t = "list"
IsRaised(v) == v.t = "raise"

\* emptiness taken as general falsiness
InEmptyFalsy(value) ==
    value \in {None, IntV(-1), StrV(""), IntV(0), BoolV(FALSE),
               Dict(<<>>), List(<<>>)}

\* emptiness taken as absence only
InEmptyNoneOnly(value) == value = None

\* `value in (None, -1, "")`: membership by ==, so 0, False and Nil are not in
InEmpty(value) == value \in {None, IntV(-1), StrV("")}

\* d[k] = v : replaces in place when k is a key, appends otherwise
dict_set(d, k, v) ==
    IF \E i \in 1..Len(d.items) : d.items[i].k = k
    THEN Dict([i \in 1..Len(d.items) |->
                 IF d.items[i].k = k THEN Item(k, v) ELSE d.items[i]])
    ELSE Dict(Append(d.items, Item(k, v)))

\* d.pop(k)
dict_pop(d, k) == Dict(SelectSeq(d.items, LAMBDA it : it.k # k))

Keys(d) == {d.items[i].k : i \in 1..Len(d.items)}
HasKey(d, k) == k \in Keys(d)
Lookup(d, k) == (CHOOSE i \in 1..Len(d.items) : d.items[i].k = k)
ValueOf(d, k) == d.items[Lookup(d, k)].v

(***************************************************************************)
(* Schema tree (AXLElement): an arena of nodes, 0 standing for None.       *)
(* addLine                                                                 *)
(*   line                                                                  *)
(*     name, description          (scalar)                                 *)
(*     lines                      (composite)                              *)
(*       pattern                  (scalar)                                 *)
(***************************************************************************)
NoNode == 0
Root == 1
Nodes == 1..6
NodeName == <<"addLine", "line", "name", "description", "lines", "pattern">>
NodeParent == <<0, 1, 2, 2, 2, 5>>
NodeChildren == << <<2>>, <<3, 4, 5>>, <<>>, <<>>, <<6>>, <<>> >>

AXLElement(required) ==
    [n \in Nodes |-> [name |-> NodeName[n],
                      parent |-> NodeParent[n],
                      children |-> NodeChildren[n],
                      is_required |-> n \in required]]

\* every assignment of is_required flags to the nodes of the tree above
get_tree == {AXLElement(required) : required \in SUBSET Nodes}

\* AXLElement.get(name, None): the child called name, or None
get(S, n, name) ==
    LET found == {i \in 1..Len(S[n].children) : S[S[n].children[i]].name = name}
    IN  IF found = {} THEN NoNode
        ELSE S[n].children[CHOOSE i \in found : \A j \in found : i <= j]

\* required-in-context: the node or any of its ancestors is marked required
RECURSIVE parent_chain_required(_, _)
parent_chain_required(S, n) ==
    \/ S[n].is_required
    \/ /\ S[n].parent # NoNode
       /\ parent_chain_required(S, S[n].parent)

(***************************************************************************)
(* Axl.__extract_template                                                  *)
(***************************************************************************)
RECURSIVE is_removable(_)

\* the branch for lists left out: a sequence never stands in the way
is_removable_ListsIgnored(branch) ==
    \A i \in 1..Len(branch.items) :
        LET value == branch.items[i].v
        IN  IF IsDict(value) THEN is_removable(value)
            ELSE IF IsList(value) THEN TRUE
            ELSE InEmpty(value)

is_removable(branch) ==
    \A i \in 1..Len(branch.items) :
        LET value == branch.items[i].v
        IN  IF IsDict(value) THEN is_removable(value)
            ELSE IF IsList(value)
            THEN /\ \A j \in 1..Len(value.elems) : IsDict(value.elems[j])
                 /\ \A j \in 1..Len(value.elems) : is_removable(value.elems[j])
            ELSE InEmpty(value)

\* outcome of one iteration of tree_match's loop
Skip == [t |-> "skip"]
Keep(v) == [t |-> "keep", v |-> v]

\* requiredness of the node forgotten
keep_dict_NonEmptyOnly(S, node, result_dict) == ~is_removable(result_dict)

\* a pruned mapping is stored unless it is removable and the node optional
keep_dict(S, node, result_dict) ==
    \/ ~is_removable(result_dict)
    \/ parent_chain_required(S, node)

\* the pruned elements of a sequence, the removable ones filtered out
filter_list(result_list) ==
    IF \A j \in 1..Len(result_list) : IsDict(result_list[j])
    THEN SelectSeq(result_list, LAMBDA r : ~is_removable(r))
    ELSE result_list

\* requiredness of the node rescuing an emptied sequence
keep_list_OrRequired(S, node, result_list) ==
    result_list # <<>> \/ parent_chain_required(S, node)

\* a sequence is stored unless nothing is left of it
keep_list(S, node, result_list) == result_list # <<>>

\* the two branches for a node without children
match_scalar(S, node, value) ==
    IF value = None /\ parent_chain_required(S, node)
    THEN Keep(Nil)
    ELSE IF ~InEmpty(value) \/ parent_chain_required(S, node)
    THEN Keep(value)
    ELSE Skip

RECURSIVE tree_match(_, _, _)
RECURSIVE match_item(_, _, _)
RECURSIVE match_loop(_, _, _, _, _)

\* the body of the loop for a name the schema node knows (node # None)
match_item(S, node, value) ==
    IF S[node].children # <<>>
    THEN IF IsDict(value)
         THEN LET result_dict == tree_match(S, node, value)
              IN  IF IsRaised(result_dict) THEN result_dict
                  ELSE IF keep_dict(S, node, result_dict)
                  THEN Keep(result_dict)
                  ELSE Skip
         ELSE IF IsList(value)
         THEN LET result_list ==
                      [j \in 1..Len(value.elems) |->
                          IF IsDict(value.elems[j])
                          THEN tree_match(S, node, value.elems[j])
                          ELSE Raised("AttributeError")]   \* t.items() on a non-dict
              IN  IF \E j \in 1..Len(result_list) : IsRaised(result_list[j])
                  THEN Raised("AttributeError")
                  ELSE IF keep_list(S, node, filter_list(result_list))
                  THEN Keep(List(filter_list(result_list)))
                  ELSE Skip
         ELSE Skip
    ELSE match_scalar(S, node, value)

\* the loop with the test `node is not None` left out: names the schema does
\* not know are copied
match_loop_KeepUnknown(S, root, items, i, result) ==
    IF i > Len(items) THEN result
    ELSE LET name == items[i].k
             value == items[i].v
             node == get(S, root, name)
             step == IF node = NoNode THEN Keep(value) ELSE match_item(S, node, value)
         IN  IF IsRaised(step) THEN step
             ELSE IF step = Skip
             THEN match_loop(S, root, items, i + 1, result)
             ELSE match_loop(S, root, items, i + 1, dict_set(result, name, step.v))

\* for name, value in template.items(), from the i-th item on
match_loop(S, root, items, i, result) ==
    IF i > Len(items) THEN result
    ELSE LET name == items[i].k
             value == items[i].v
             node == get(S, root, name)
             step == IF node = NoNode THEN Skip ELSE match_item(S, node, value)
         IN  IF IsRaised(step) THEN step
             ELSE IF step = Skip
             THEN match_loop(S, root, items, i + 1, result)
             ELSE match_loop(S, root, items, i + 1, dict_set(result, name, step.v))

tree_match(S, root, template) == match_loop(S, root, template.items, 1, Dict(<<>>))

RECURSIVE cleanup(_, _, _, _, _)

\* the second pass with its last branch left out: a removable mapping stays
cleanup_KeepsRemovableDicts(S, tree, copy, i, result_data) ==
    IF i > Len(copy.items) THEN result_data
    ELSE LET name == copy.items[i].k
             value == copy.items[i].v
         IN  IF parent_chain_required(S, get(S, tree, name))
             THEN IF value = None
                  THEN cleanup(S, tree, copy, i + 1, dict_set(result_data, name, Nil))
                  ELSE cleanup(S, tree, copy, i + 1, result_data)
             ELSE IF InEmpty(value)
             THEN cleanup(S, tree, copy, i + 1, dict_pop(result_data, name))
             ELSE cleanup(S, tree, copy, i + 1, result_data)

\* the second pass with its first branch left out: requiredness protects
\* no field
cleanup_IgnoresRequired(S, tree, copy, i, result_data) ==
    IF i > Len(copy.items) THEN result_data
    ELSE LET name == copy.items[i].k
             value == copy.items[i].v
         IN  IF InEmpty(value)
             THEN cleanup(S, tree, copy, i + 1, dict_pop(result_data, name))
             ELSE IF IsDict(value) /\ is_removable(value)
             THEN cleanup(S, tree, copy, i + 1, dict_pop(result_data, name))
             ELSE cleanup(S, tree, copy, i + 1, result_data)

\* the second pass: for name, value in deepcopy(result_data).items()
cleanup(S, tree, copy, i, result_data) ==
    IF i > Len(copy.items) THEN result_data
    ELSE LET name == copy.items[i].k
             value == copy.items[i].v
         IN  IF parent_chain_required(S, get(S, tree, name))
             THEN IF value = None
                  THEN cleanup(S, tree, copy, i + 1, dict_set(result_data, name, Nil))
                  ELSE cleanup(S, tree, copy, i + 1, result_data)
             ELSE IF InEmpty(value)
             THEN cleanup(S, tree, copy, i + 1, dict_pop(result_data, name))
             ELSE IF IsDict(value) /\ is_removable(value)
             THEN cleanup(S, tree, copy, i + 1, dict_pop(result_data, name))
             ELSE cleanup(S, tree, copy, i + 1, result_data)

\* the schema node extraction runs against: the root, or its child `child`
resolve_child(S, child) == IF child # "" THEN get(S, Root, child) ELSE Root

\* what __extract_template returns, or the exception it raises
extract_template(S, template, child) ==
    LET tree == resolve_child(S, child)
    IN  IF tree = NoNode
        THEN Raised("AttributeError")     \* tree.name with tree = None
        ELSE LET result_data == tree_match(S, tree, template)
             IN  IF IsRaised(result_data) THEN result_data
                 ELSE cleanup(S, tree, result_data, 1, result_data)

\* the first pass alone
first_pass(S, template, child) ==
    LET tree == resolve_child(S, child)
    IN  IF tree = NoNode THEN Raised("AttributeError")
        ELSE tree_match(S, tree, template)

(***************************************************************************)
(* Inputs of the extraction                                                *)
(***************************************************************************)
\* zero or one item for key k
Opt(k, vals) == {<<>>} \cup {<<Item(k, v)>> : v \in vals}

SeqsUpTo(S, n) == UNION {[1..m -> S] : m \in 0..n}

\* values offered at the scalar field `pattern`
PatternVals == {None, IntV(-1), StrV(""), StrV("1001"),
                Dict(<<Item("uuid", None)>>), List(<<>>)}

\* mappings offered under the composite field `lines`
LineDicts == {Dict(p \o x) : p \in Opt("pattern", PatternVals),
                             x \in Opt("extra", {StrV("x")})}

\* elements offered in a sequence under `lines`
LineElems == {Dict(<<>>), Dict(<<Item("pattern", None)>>),
              Dict(<<Item("pattern", StrV(""))>>),
              Dict(<<Item("pattern", StrV("1001"))>>), None}

LinesVals == {None, StrV("DN1")} \cup LineDicts
             \cup {List(s) : s \in SeqsUpTo(LineElems, MaxListLen)}

\* values offered at the scalar field `name`
NameVals == {None, IntV(-1), StrV(""), IntV(0), BoolV(FALSE), StrV("DN1"),
             Dict(<<Item("uuid", None)>>), Dict(<<Item("uuid", StrV("DN1"))>>),
             List(<<>>)}

\* a few values for `lines` next to the full range of `name`
FewLinesVals == {Dict(<<Item("pattern", StrV(""))>>),
                 Dict(<<Item("pattern", StrV("1001"))>>), List(<<>>)}

\* a few values for `name` next to the full range of `lines`
FewNameVals == {StrV(""), StrV("DN1")}

\* source records whose keys come in another order than the children of the
\* schema node: `lines` ahead of `name`, `description` ahead of `name`
ReorderedTemplates ==
    {Dict(<<Item("lines", l), Item("name", n)>>) :
        l \in FewLinesVals, n \in FewNameVals}
    \cup {Dict(<<Item("description", StrV("d")), Item("name", n)>>) :
            n \in FewNameVals}

\* the source records: every value of `name` with a few of `lines`, with and
\* without `description` and a field the schema does not know; and every
\* value of `lines` with a few of `name`
Templates ==
    {Dict(n \o d \o l \o x) :
        n \in Opt("name", NameVals),
        d \in Opt("description", {StrV("")}),
        l \in Opt("lines", FewLinesVals),
        x \in Opt("extra", {StrV("x")})}
    \cup {Dict(n \o l) : n \in Opt("name", FewNameVals),
                          l \in Opt("lines", LinesVals)}
    \cup ReorderedTemplates

\* a call __extract_template(element_name, template, child)
Call(tpl, c) == [template |-> tpl, child |-> c]

\* the calls made: against the wrapper child, against the schema root (the
\* template then sits under the wrapper key), and with a child the schema
\* does not have
Calls == {Call(tpl, "line") : tpl \in Templates}
         \cup {Call(Dict(<<Item("line", tpl)>>), "") : tpl \in Templates}
         \cup {Call(Dict(n), "phone") : n \in Opt("name", {StrV("DN1")})}

(***************************************************************************)
(* State machine                                                           *)
(***************************************************************************)
VARIABLES schema, pc, template, child, matched, ret

\* a call through a decorator (check_tags, check_arguments): the wrapped
\* function, the caller's keywords, the keyword mappings the wrapped function
\* was invoked with, the outcome, and the tag map handed to the transport
VARIABLES w_pc, w_func, w_kwargs, w_calls, w_result, w_transport

\* a call of the response shaper: the tags, the data mapping as it was handed
\* in, the same object after the call, and what the call gave back
VARIABLES s_pc, s_tags, s_data0, s_data, s_ret

\* a call of one of the plain operations (is_removable, the single-record
\* operations): the call, the requests it sent to the remote, its outcome
VARIABLES o_pc, o_call, o_requests, o_ret

\* a call of _chunk_data: what the remote will answer, the requests sent so
\* far, the locals skip and data, and the outcome
VARIABLES c_pc, c_remote, c_requests, c_skip, c_data, c_ret

\* a call of _multithread: its arguments, the state of each future, the
\* futures as_completed has yielded so far, whether cancellation was
\* requested, and the outcome
VARIABLES m_pc, m_kwargs_list, m_catagorize_by, m_futs, m_yielded, m_cancel,
          m_ret

\* the schema tree cache and the threads looking trees up
VARIABLES k_cache, k_threads

extractVars == <<schema, pc, template, child, matched, ret>>
wrapVars == <<w_pc, w_func, w_kwargs, w_calls, w_result, w_transport>>
shapeVars == <<s_pc, s_tags, s_data0, s_data, s_ret>>

opsVars == <<o_pc, o_call, o_requests, o_ret>>
chunkVars == <<c_pc, c_remote, c_requests, c_skip, c_data, c_ret>>
threadVars == <<m_pc, m_kwargs_list, m_catagorize_by, m_futs, m_yielded,
                m_cancel, m_ret>>
cacheVars == <<k_cache, k_threads>>
toolVars == <<opsVars, chunkVars, threadVars, cacheVars>>

vars == <<schema, pc, template, child, matched, ret,
          w_pc, w_func, w_kwargs, w_calls, w_result, w_transport,
          s_pc, s_tags, s_data0, s_data, s_ret,
          o_pc, o_call, o_requests, o_ret,
          c_pc, c_remote, c_requests, c_skip, c_data, c_ret,
          m_pc, m_kwargs_list, m_catagorize_by, m_futs, m_yielded, m_cancel,
          m_ret, k_cache, k_threads>>

\* no extraction call is in progress
ExtractIdle ==
    /\ pc = "idle"
    /\ template = Dict(<<>>)
    /\ child = ""
    /\ matched = None
    /\ ret = None

\* no decorated call is in progress
WrapIdle ==
    /\ w_pc = "idle"
    /\ w_func = None
    /\ w_kwargs = Dict(<<>>)
    /\ w_calls = <<>>
    /\ w_result = None
    /\ w_transport = None

\* no shaping call is in progress
ShapeIdle ==
    /\ s_pc = "idle"
    /\ s_tags = List(<<>>)
    /\ s_data0 = Dict(<<>>)
    /\ s_data = Dict(<<>>)
    /\ s_ret = None

\* no plain operation is in progress
OpsIdle ==
    /\ o_pc = "idle"
    /\ o_call = None
    /\ o_requests = <<>>
    /\ o_ret = None

\* no _chunk_data call is in progress
ChunkIdle ==
    /\ c_pc = "idle"
    /\ c_remote = <<>>
    /\ c_requests = <<>>
    /\ c_skip = 0
    /\ c_data = <<>>
    /\ c_ret = None

\* no _multithread call is in progress
ThreadsIdle ==
    /\ m_pc = "idle"
    /\ m_kwargs_list = <<>>
    /\ m_catagorize_by = None
    /\ m_futs = <<>>
    /\ m_yielded = <<>>
    /\ m_cancel = FALSE
    /\ m_ret = None

\* nothing is cached and no thread looks a tree up
CacheIdle ==
    /\ k_cache = <<>>
    /\ k_threads = <<>>

ToolsIdle == OpsIdle /\ ChunkIdle /\ ThreadsIdle /\ CacheIdle

Init ==
    /\ schema \in get_tree
    /\ ExtractIdle
    /\ WrapIdle
    /\ ShapeIdle
    /\ ToolsIdle

\* one call of __extract_template(element_name, template, child)
ExtractTemplate ==
    /\ pc = "idle"
    /\ \E call \in Calls :
          /\ template' = call.template
          /\ child' = call.child
          /\ matched' = first_pass(schema, call.template, call.child)
          /\ ret' = extract_template(schema, call.template, call.child)
    /\ pc' = "done"
    /\ UNCHANGED <<schema, wrapVars, shapeVars, toolVars>>

Next == ExtractTemplate

Spec == Init /\ [][Next]_vars

TypeOK ==
    /\ pc \in {"idle", "done"}
    /\ pc = "done" => ret.t \in {"dict", "raise"}

(***************************************************************************)
(* Vocabulary of the properties                                            *)
(***************************************************************************)
\* the schema node the call in the current state started from
StartNode == resolve_child(schema, child)

\* the call has returned a data tree
Returned == pc = "done" /\ IsDict(ret)

\* a level of the walk: a schema node with the source mapping matched
\* against it; top marks the mapping handed to the call
Level(n, m, top) == [node |-> n, src |-> m, top |-> top]

RECURSIVE SubLevels(_, _, _)
SubLevels(S, n, m) ==
    UNION {LET c == get(S, n, m.items[i].k)
               v == m.items[i].v
           IN  IF c = NoNode THEN {}
               ELSE IF S[c].children = <<>> THEN {}
               ELSE IF IsDict(v) THEN {Level(c, v, FALSE)} \cup SubLevels(S, c, v)
               ELSE IF IsList(v)
               THEN UNION {IF IsDict(v.elems[j])
                           THEN {Level(c, v.elems[j], FALSE)}
                                \cup SubLevels(S, c, v.elems[j])
                           ELSE {} : j \in 1..Len(v.elems)}
               ELSE {} : i \in 1..Len(m.items)}

WalkedLevels ==
    IF pc = "done" /\ StartNode # NoNode
    THEN {Level(StartNode, template, TRUE)} \cup SubLevels(schema, StartNode, template)
    ELSE {}

\* what extraction produced for a level: the returned tree at the top, the
\* pruned sub-tree below
OutputAt(lv) == IF lv.top THEN ret ELSE tree_match(schema, lv.node, lv.src)

FieldName(lv, i) == lv.src.items[i].k
FieldValue(lv, i) == lv.src.items[i].v
FieldNode(lv, i) == get(schema, lv.node, FieldName(lv, i))

\* fields of a level by the kind of schema node and source value
ScalarFields(lv) ==
    {i \in 1..Len(lv.src.items) :
        /\ FieldNode(lv, i) # NoNode
        /\ schema[FieldNode(lv, i)].children = <<>>}
MappingFields(lv) ==
    {i \in 1..Len(lv.src.items) :
        /\ FieldNode(lv, i) # NoNode
        /\ schema[FieldNode(lv, i)].children # <<>>
        /\ IsDict(FieldValue(lv, i))}
SequenceFields(lv) ==
    {i \in 1..Len(lv.src.items) :
        /\ FieldNode(lv, i) # NoNode
        /\ schema[FieldNode(lv, i)].children # <<>>
        /\ IsList(FieldValue(lv, i))}

RequiredInContext(n) == parent_chain_required(schema, n)

\* the three values that count as empty
EmptySentinels == {None, IntV(-1), StrV("")}

Holds(out, name, value) == HasKey(out, name) /\ ValueOf(out, name) = value

(***************************************************************************)
(* C1 scalar rule                                                          *)
(***************************************************************************)
ScalarRule(out, name, value, req) ==
    IF value = None /\ req THEN Holds(out, name, Nil)
    ELSE IF value \notin EmptySentinels \/ req THEN Holds(out, name, value)
    ELSE ~HasKey(out, name)

\* C1 as stated: at every level, for every field of a scalar schema node
\* present in the source, the output holds Nil (None and required), else
\* the raw value (not one of None, -1, "" or required), else nothing.
C1_ScalarRuleAnyValue ==
    \A lv \in WalkedLevels :
        IsDict(OutputAt(lv)) =>
            \A i \in ScalarFields(lv) :
                ScalarRule(OutputAt(lv), FieldName(lv, i), FieldValue(lv, i),
                           RequiredInContext(FieldNode(lv, i)))

\* the case the second pass decides differently: a field of the mapping
\* handed to the call, not required-in-context, whose value is a removable
\* mapping
DroppedByCleanup(lv, i) ==
    /\ lv.top
    /\ ~RequiredInContext(FieldNode(lv, i))
    /\ IsDict(FieldValue(lv, i))
    /\ is_removable(FieldValue(lv, i))

\* C1 amended: the scalar rule holds for every field of a scalar schema
\* node at every level, except that a top-level field which is not
\* required-in-context and whose source value is a removable mapping is
\* absent from the output. An optional 0 or False is kept.
C1_ScalarRule ==
    \A lv \in WalkedLevels :
        IsDict(OutputAt(lv)) =>
            \A i \in ScalarFields(lv) :
                IF DroppedByCleanup(lv, i)
                THEN ~HasKey(OutputAt(lv), FieldName(lv, i))
                ELSE ScalarRule(OutputAt(lv), FieldName(lv, i), FieldValue(lv, i),
                                RequiredInContext(FieldNode(lv, i)))

\* an optional scalar 0 is kept by a call that returned
C1_Witness ==
    /\ Returned
    /\ child = "line"
    /\ HasKey(template, "name")
    /\ ValueOf(template, "name") = IntV(0)
    /\ ~RequiredInContext(3)
    /\ Holds(ret, "name", IntV(0))

(***************************************************************************)
(* C2 composite-mapping rule                                               *)
(***************************************************************************)
ExampleSchema == AXLElement({3, 6})
ExampleSource ==
    Dict(<<Item("name", StrV("DN1")), Item("description", StrV("")),
           Item("lines", Dict(<<Item("pattern", StrV("1001"))>>))>>)
ExampleOutput ==
    Dict(<<Item("name", StrV("DN1")),
           Item("lines", Dict(<<Item("pattern", StrV("1001"))>>))>>)

Coerce(v) == IF v = None THEN Nil ELSE v

\* every field of a scalar schema node found in the source value v of the
\* schema node c, at any depth, is in the output o at the same place (None
\* as Nil); has tells whether the output has that place at all
RECURSIVE ScalarsKept(_, _, _, _)
ScalarsKept(c, v, has, o) ==
    IF IsDict(v)
    THEN \A i \in 1..Len(v.items) :
            LET name == v.items[i].k
                value == v.items[i].v
                n == get(schema, c, name)
                there == has /\ IsDict(o) /\ HasKey(o, name)
            IN  n # NoNode =>
                   IF schema[n].children = <<>>
                   THEN there /\ ValueOf(o, name) = Coerce(value)
                   ELSE ScalarsKept(n, value, there,
                                    IF there THEN ValueOf(o, name) ELSE None)
    ELSE IF IsList(v)
    THEN \A j \in 1..Len(v.elems) :
            LET there == has /\ IsList(o) /\ Len(o.elems) = Len(v.elems)
            IN  ScalarsKept(c, v.elems[j], there,
                            IF there THEN o.elems[j] ELSE None)
    ELSE TRUE

\* C4: a node whose parent is required-in-context is required-in-context
\* whatever its own flag, and so, in a call that returned, under every
\* composite field that is required-in-context every scalar descendant the
\* source has is kept (None as Nil), whatever its flag and value.
C4_AncestorRequiredKeepsDescendants ==
    /\ \A n \in Nodes :
          (schema[n].parent # NoNode /\ RequiredInContext(schema[n].parent))
              => RequiredInContext(n)
    /\ \A lv \in WalkedLevels :
          IsDict(OutputAt(lv)) =>
              \A i \in MappingFields(lv) \cup SequenceFields(lv) :
                  RequiredInContext(FieldNode(lv, i)) =>
                      ScalarsKept(FieldNode(lv, i), FieldValue(lv, i),
                                  HasKey(OutputAt(lv), FieldName(lv, i)),
                                  IF HasKey(OutputAt(lv), FieldName(lv, i))
                                  THEN ValueOf(OutputAt(lv), FieldName(lv, i))
                                  ELSE None)

(***************************************************************************)
(* C5 round trip on a fully required schema                                *)
(***************************************************************************)
\* the output o holds everything the source value v has for the schema node
\* c: every scalar field the schema knows (None as Nil), every mapping and
\* every element of every sequence, level by level
RECURSIVE PreservedIn(_, _, _)
PreservedIn(c, v, o) ==
    IF IsDict(v)
    THEN /\ IsDict(o)
         /\ \A i \in 1..Len(v.items) :
               LET name == v.items[i].k
                   value == v.items[i].v
                   n == get(schema, c, name)
               IN  n # NoNode =>
                      IF schema[n].children = <<>>
                      THEN Holds(o, name, Coerce(value))
                      ELSE IF IsDict(value) \/ IsList(value)
                      THEN HasKey(o, name) /\ PreservedIn(n, value, ValueOf(o, name))
                      ELSE TRUE
    ELSE IF IsList(v)
    THEN /\ IsList(o)
         /\ Len(o.elems) = Len(v.elems)
         /\ \A j \in 1..Len(v.elems) :
               IsDict(v.elems[j]) => PreservedIn(c, v.elems[j], o.elems[j])
    ELSE TRUE

\* C5: when every schema node is required-in-context, a call that returned
\* preserved every field of the source the schema knows, None as Nil, at
\* every level, for mappings, sequences and scalars alike.
C5_FullyRequiredDropsNothing ==
    (/\ Returned
     /\ \A n \in Nodes : RequiredInContext(n))
        => PreservedIn(StartNode, template, ret)

(***************************************************************************)
(* C6 round trip on a fully optional, fully empty record                   *)
(***************************************************************************)
NoNodeRequired == \A n \in Nodes : ~schema[n].is_required

RECURSIVE AllLeavesEmpty(_)
AllLeavesEmpty(v) ==
    IF IsDict(v) THEN \A i \in 1..Len(v.items) : AllLeavesEmpty(v.items[i].v)
    ELSE IF IsList(v) THEN \A j \in 1..Len(v.elems) : AllLeavesEmpty(v.elems[j])
    ELSE v \in EmptySentinels

RECURSIVE SequencesWellPlaced(_, _)
SequencesWellPlaced(c, v) ==
    IF IsDict(v)
    THEN \A i \in 1..Len(v.items) :
            LET n == get(schema, c, v.items[i].k)
                value == v.items[i].v
            IN  n # NoNode =>
                   IF schema[n].children = <<>>
                   THEN ~IsList(value)
                   ELSE SequencesWellPlaced(n, value)
    ELSE IF IsList(v)
    THEN \A j \in 1..Len(v.elems) :
            IsDict(v.elems[j]) /\ SequencesWellPlaced(c, v.elems[j])
    ELSE TRUE

RECURSIVE HasNonEmptyLeaf(_)
HasNonEmptyLeaf(v) ==
    IF IsDict(v) THEN \E i \in 1..Len(v.items) : HasNonEmptyLeaf(v.items[i].v)
    ELSE IF IsList(v) THEN \E j \in 1..Len(v.elems) : HasNonEmptyLeaf(v.elems[j])
    ELSE v \notin EmptySentinels

\* the sub-tree sub, extracted for the schema node c, has a field whose
\* schema node is required-in-context
RECURSIVE HasRequiredField(_, _)
HasRequiredField(c, sub) ==
    IF IsDict(sub)
    THEN \E i \in 1..Len(sub.items) :
            LET n == get(schema, c, sub.items[i].k)
            IN  /\ n # NoNode
                /\ \/ RequiredInContext(n)
                   \/ HasRequiredField(n, sub.items[i].v)
    ELSE IF IsList(sub)
    THEN \E j \in 1..Len(sub.elems) : HasRequiredField(c, sub.elems[j])
    ELSE FALSE

Elements(l) == {l.elems[j] : j \in 1..Len(l.elems)}

\* C7: a sub-tree the extractor produced (for a mapping, or for an element
\* of a sequence) is kept at its parent iff it has a non-empty leaf or a
\* required-in-context field.
C7_KeptIffLeafOrRequired ==
    \A lv \in WalkedLevels :
        IsDict(OutputAt(lv)) =>
            /\ \A i \in MappingFields(lv) :
                  LET sub == tree_match(schema, FieldNode(lv, i), FieldValue(lv, i))
                  IN  HasKey(OutputAt(lv), FieldName(lv, i))
                          <=> \/ HasNonEmptyLeaf(sub)
                              \/ HasRequiredField(FieldNode(lv, i), sub)
            /\ \A i \in SequenceFields(lv) :
                  \A j \in 1..Len(FieldValue(lv, i).elems) :
                      LET sub == tree_match(schema, FieldNode(lv, i),
                                            FieldValue(lv, i).elems[j])
                          kept == /\ HasKey(OutputAt(lv), FieldName(lv, i))
                                  /\ sub \in Elements(ValueOf(OutputAt(lv),
                                                              FieldName(lv, i)))
                      IN  kept <=> \/ HasNonEmptyLeaf(sub)
                                   \/ HasRequiredField(FieldNode(lv, i), sub)

(***************************************************************************)
(* C8 no failure on a shape mismatch                                       *)
(***************************************************************************)
\* C8: whatever the shape of the source, a call against a schema node that
\* exists returns a data tree and raises nothing.
C8_NeverRaisesOnShape ==
    (pc = "done" /\ StartNode # NoNode) => IsDict(ret)

(***************************************************************************)
(* C9 the schema is authoritative                                          *)
(***************************************************************************)
\* C9 as stated: at every nesting level every key of the output is a child
\* name of the corresponding schema node and a key of the corresponding
\* source mapping.
RECURSIVE KeysFromSchemaAndSource(_, _, _)
KeysFromSchemaAndSource(c, src, out) ==
    \A i \in 1..Len(out.items) :
        LET name == out.items[i].k
            o == out.items[i].v
            n == get(schema, c, name)
        IN  /\ n # NoNode
            /\ IsDict(src)
            /\ HasKey(src, name)
            /\ IF IsDict(o)
               THEN /\ IsDict(ValueOf(src, name))
                    /\ KeysFromSchemaAndSource(n, ValueOf(src, name), o)
               ELSE IF IsList(o)
               THEN /\ IsList(ValueOf(src, name))
                    /\ \A e \in Elements(o) :
                          IsDict(e) =>
                              \E se \in Elements(ValueOf(src, name)) :
                                  IsDict(se) /\ KeysFromSchemaAndSource(n, se, e)
               ELSE TRUE

C9_KeysKnownAtEveryLevel ==
    Returned => KeysFromSchemaAndSource(StartNode, template, ret)

\* the same with the value of a scalar schema node taken as a whole: it is
\* the source value itself, or Nil for None
RECURSIVE KeysFromSchemaOrVerbatim(_, _, _)
KeysFromSchemaOrVerbatim(c, src, out) ==
    \A i \in 1..Len(out.items) :
        LET name == out.items[i].k
            o == out.items[i].v
            n == get(schema, c, name)
        IN  /\ n # NoNode
            /\ IsDict(src)
            /\ HasKey(src, name)
            /\ IF schema[n].children = <<>>
               THEN o = Coerce(ValueOf(src, name)) \/ o = ValueOf(src, name)
               ELSE IF IsDict(o)
               THEN /\ IsDict(ValueOf(src, name))
                    /\ KeysFromSchemaOrVerbatim(n, ValueOf(src, name), o)
               ELSE /\ IsList(o)
                    /\ IsList(ValueOf(src, name))
                    /\ \A e \in Elements(o) :
                          \E se \in Elements(ValueOf(src, name)) :
                              IsDict(e) /\ IsDict(se)
                                  /\ KeysFromSchemaOrVerbatim(n, se, e)

\* C9 amended: at every nesting level matched against a composite schema
\* node, every key of the output is a child name of that node and a key of
\* the corresponding source mapping; the value of a scalar schema node is
\* the source value passed through whole (Nil for None), so a mapping found
\* there keeps its own keys. An unknown source field never becomes a field
\* of the output and a required field missing from the source stays absent.
C9_KeysKnownOrVerbatim ==
    Returned => KeysFromSchemaOrVerbatim(StartNode, template, ret)

\* an unknown source field is left out and a missing required field is not
\* invented, next to a field that is kept
C9_Witness ==
    /\ Returned
    /\ child = "line"
    /\ HasKey(template, "extra")
    /\ ~HasKey(template, "name")
    /\ schema[3].is_required
    /\ HasKey(ret, "lines")
    /\ Keys(ret) = {"lines"}

(***************************************************************************)
(* C10 the child argument                                                  *)
(***************************************************************************)
ChildNames(n) == {schema[schema[n].children[i]].name : i \in 1..Len(schema[n].children)}

\* C10: with a non-empty child that the schema root does not have the call
\* fails with DumbProgrammerException; with a child it has, the fields of
\* the result are fields of that child and not of the root.
C10_MissingChildFault ==
    /\ (pc = "done" /\ child # "" /\ get(schema, Root, child) = NoNode)
          => ret = Raised("DumbProgrammerException")
    /\ (Returned /\ child # "" /\ get(schema, Root, child) # NoNode)
          => Keys(ret) \subseteq ChildNames(get(schema, Root, child))

(***************************************************************************)
(* Part 2: the decorators check_tags and check_arguments                   *)
(***************************************************************************)
\* cucm.axl.configs: the switches that bypass the checks are off
DISABLE_CHECK_TAGS == FALSE
DISABLE_CHECK_ARGS == FALSE

\* the node whose children are the fields an operation may be asked to
\* return (the arena's `line` node read as the operation's returnedTags)
ReturnedTags == 2

\* the marker a selected scalar field is mapped to
EmptyMarker == Dict(<<>>)

\* a Validation Fault: the operation and the offending field
ValidationFault(element_name, field) ==
    Raised([fault |-> "Validation", op |-> element_name, field |-> field])

\* names of the immediate children of node n, in schema order
child_names(S, n) ==
    [i \in 1..Len(S[n].children) |-> S[S[n].children[i]].name]

\* dict(items): later duplicates of a key overwrite in place
RECURSIVE dict_from(_)
dict_from(items) ==
    IF items = <<>> THEN Dict(<<>>)
    ELSE LET k == Len(items)
         IN  dict_set(dict_from(SubSeq(items, 1, k - 1)),
                      items[k].k, items[k].v)

\* {name: marker for name in names}
dict_of(names, marker) ==
    dict_from([i \in 1..Len(names) |-> Item(names[i], marker)])

\* every immediate legal field name mapped to an empty marker, in the
\* single-element nested form
get_return_tags(S, element_name) ==
    List(<<dict_of(child_names(S, ReturnedTags), EmptyMarker)>>)

\* a legal field expanded one level: a scalar field is an empty marker, a
\* composite field the map of its children
expand(S, name) ==
    dict_of(child_names(S, get(S, ReturnedTags, name)),
            EmptyMarker)

\* the single-element form carrying a nested mapping
IsNestedForm(tags) ==
    /\ IsList(tags)
    /\ Len(tags.elems) = 1
    /\ IsDict(tags.elems[1])

\* resolve(schema, requested)
fix_return_tags(S, element_name, tags) ==
    IF IsNestedForm(tags) THEN tags
    ELSE IF tags.elems = <<>> THEN get_return_tags(S, element_name)
    ELSE LET names == [i \in 1..Len(tags.elems) |-> tags.elems[i].s]
             bad == {i \in 1..Len(names) :
                        get(S, ReturnedTags, names[i]) = NoNode}
         IN  IF bad # {}
             THEN ValidationFault(element_name,
                      names[CHOOSE i \in bad : \A j \in bad : i <= j])
             ELSE List(<<dict_from([i \in 1..Len(names) |->
                                       Item(names[i], expand(S, names[i]))])>>)

\* the nested form is unpacked like a list of names
tag_handler_NamesOnly(tags) ==
    IF ~IsList(tags) THEN Raised("TypeError")
    ELSE IF \A i \in 1..Len(tags.elems) : tags.elems[i].t = "str"
    THEN dict_of([i \in 1..Len(tags.elems) |-> tags.elems[i].s],
                 StrV(""))
    ELSE dict_of([i \in 1..Len(tags.elems[1].items) |->
                     tags.elems[1].items[i].k],
                 StrV(""))

\* _tag_handler(tags): the tag map handed to the transport
tag_handler(tags) ==
    IF tags = None THEN Raised("TypeError")          \* iterating None
    ELSE IF IsDict(tags)
    THEN IF tags.items = <<>> THEN tags              \* {t: "" for t in {}}
         ELSE Raised("KeyError")                     \* tags[0] of a mapping
    ELSE IF Len(tags.elems) > 0 /\ IsDict(tags.elems[1]) THEN tags.elems[1]
    ELSE IF \A i \in 1..Len(tags.elems) : tags.elems[i].t = "str"
    THEN dict_of([i \in 1..Len(tags.elems) |-> tags.elems[i].s],
                 StrV(""))
    ELSE None

\* what a decorated call comes to: the keyword mappings the wrapped function
\* was invoked with, one per invocation, and what the caller gets
Outcome(calls, result) == [calls |-> calls, result |-> result]

\* what the wrapped function returns when it runs to its end
Response == StrV("response")

\* func(*args, **kwargs)
invoke(kwargs) == Outcome(<<kwargs>>, Response)

\* return_tags as the wrapped function sees it: the keyword or its default
return_tags_of(func, kwargs) ==
    IF HasKey(kwargs, "return_tags") THEN ValueOf(kwargs, "return_tags")
    ELSE func.tags_param.default

\* the wrapped function is handed the bare mapping, not the list carrying it
invoke_with_Unwrapped(S, func, kwargs, tags) ==
    LET fixed == fix_return_tags(S, func.element_name, tags)
    IN  IF IsRaised(fixed) THEN Outcome(<<>>, fixed)
        ELSE invoke(dict_set(kwargs, "return_tags", fixed.elems[1]))

\* kwargs["return_tags"] = fix_return_tags(...); return func(*args, **kwargs)
invoke_with(S, func, kwargs, tags) ==
    LET fixed == fix_return_tags(S, func.element_name, tags)
    IN  IF IsRaised(fixed) THEN Outcome(<<>>, fixed)
        ELSE invoke(dict_set(kwargs, "return_tags", fixed))

\* an empty list is handed on as it came
check_tags_list_EmptyAsGiven(S, func, kwargs) ==
    IF Len(ValueOf(kwargs, "return_tags").elems) = 0
    THEN invoke(kwargs)
    ELSE invoke_with(S, func, kwargs, ValueOf(kwargs, "return_tags"))

\* the supplied list is never looked at
check_tags_list_AllTags(S, func, kwargs) ==
    invoke_with(S, func, kwargs, get_return_tags(S, func.element_name))

\* check_tags, return_tags supplied as a list
check_tags_list(S, func, kwargs) ==
    IF Len(ValueOf(kwargs, "return_tags").elems) = 0
    THEN invoke_with(S, func, kwargs, get_return_tags(S, func.element_name))
    ELSE invoke_with(S, func, kwargs, ValueOf(kwargs, "return_tags"))

\* the wrapper of check_tags(element_name)(func), called with **kwargs
check_tags(S, func, kwargs) ==
    IF DISABLE_CHECK_TAGS THEN invoke(kwargs)
    ELSE IF func.tags_param = None
    THEN Outcome(<<>>, Raised("DumbProgrammerException"))
    ELSE IF func.tags_param.kind # "KEYWORD_ONLY"
    THEN Outcome(<<>>, Raised("DumbProgrammerException"))
    ELSE IF func.element_name = ""
    THEN Outcome(<<>>, Raised("DumbProgrammerException"))
    ELSE IF ~HasKey(kwargs, "return_tags")
    THEN IF Len(func.tags_param.default.elems) = 0
         THEN invoke_with(S, func, kwargs,
                          get_return_tags(S, func.element_name))
         ELSE invoke(kwargs)
    ELSE IF IsList(ValueOf(kwargs, "return_tags"))
    THEN check_tags_list(S, func, kwargs)
    ELSE Outcome(<<>>, None)

(***************************************************************************)
(* Calls through check_tags                                                *)
(***************************************************************************)
\* names asked for: legal ones, one differing in case only, an unknown one
TagNames == {"name", "description", "lines", "Name", "bogus"}

\* flat lists of names, the empty list among them
FlatTags == {List([i \in 1..Len(q) |-> StrV(q[i])]) :
                q \in SeqsUpTo(TagNames, MaxListLen)}

\* single-element nested forms; the last names a field the schema lacks
NestedTags ==
    {List(<<Dict(<<Item("name", StrV(""))>>)>>),
     List(<<Dict(<<Item("lines", Dict(<<Item("pattern", StrV(""))>>)),
                   Item("name", StrV(""))>>)>>),
     List(<<Dict(<<>>)>>),
     List(<<Dict(<<Item("bogus", StrV(""))>>)>>)}

\* values of return_tags that are no list
NonListTags == {None, Dict(<<Item("name", StrV(""))>>)}

\* the operations decorated with check_tags: return_tags is keyword-only
\* everywhere; its default is empty or names two fields
TagFuncs ==
    {[element_name |-> "getLine",
      tags_param |-> [kind |-> "KEYWORD_ONLY", default |-> d]] :
        d \in {List(<<>>), List(<<StrV("name"), StrV("lines")>>)}}

\* keywords of a call: the record's name, and return_tags or not
TagKwargs ==
    {Dict(n \o t) : n \in Opt("name", {StrV("DN1")}),
                    t \in Opt("return_tags",
                              FlatTags \cup NestedTags \cup NonListTags)}

\* the tag map the wrapped function hands to the transport
transport_of(func, calls) ==
    IF calls = <<>> THEN None
    ELSE tag_handler(return_tags_of(func, calls[Len(calls)]))

\* a caller calls an operation decorated with check_tags
CheckTags ==
    /\ w_pc = "idle"
    /\ \E func \in TagFuncs, kwargs \in TagKwargs :
          LET o == check_tags(schema, func, kwargs)
          IN  /\ w_func' = func
              /\ w_kwargs' = kwargs
              /\ w_calls' = o.calls
              /\ w_result' = o.result
              /\ w_transport' = transport_of(func, o.calls)
    /\ w_pc' = "tags"
    /\ UNCHANGED <<extractVars, shapeVars, toolVars>>

\* the caller calls again with the return_tags the wrapped function was
\* handed the first time
CheckTagsAgain ==
    /\ w_pc = "tags"
    /\ Len(w_calls) = 1
    /\ HasKey(w_calls[1], "return_tags")
    /\ LET kwargs == dict_set(w_kwargs, "return_tags",
                              ValueOf(w_calls[1], "return_tags"))
           o == check_tags(schema, w_func, kwargs)
       IN  /\ w_calls' = w_calls \o o.calls
           /\ w_result' = o.result
           /\ w_transport' = transport_of(w_func, o.calls)
    /\ w_pc' = "tags again"
    /\ UNCHANGED <<w_func, w_kwargs, extractVars, shapeVars, toolVars>>

(***************************************************************************)
(* check_arguments                                                         *)
(***************************************************************************)
\* validate(schema, supplied_kwargs, child): descends into child when one is
\* given, then looks every top-level key up among the node's children; the
\* first key that is not there is reported
validate_arguments(S, element_name, child_name, user_kwargs) ==
    LET node == resolve_child(S, child_name)
        bad == {i \in 1..Len(user_kwargs.items) :
                   get(S, node, user_kwargs.items[i].k) = NoNode}
    IN  IF node = NoNode THEN ValidationFault(element_name, child_name)
        ELSE IF bad # {}
        THEN ValidationFault(element_name,
                 user_kwargs.items[CHOOSE i \in bad :
                                       \A j \in bad : i <= j].k)
        ELSE None

\* every keyword is validated, declared parameters too
user_kwargs_of_All(func, kwargs) == kwargs

\* {k: v for k, v in kwargs.items() if k not in default_kwargs}
user_kwargs_of(func, kwargs) ==
    Dict(SelectSeq(kwargs.items,
                   LAMBDA it : \A i \in 1..Len(func.parameters) :
                                   func.parameters[i] # it.k))

\* the wrapper of check_arguments(element_name, child)(func)
check_arguments(S, func, kwargs) ==
    IF DISABLE_CHECK_ARGS THEN invoke(kwargs)
    ELSE LET fault == validate_arguments(S, func.element_name, func.child,
                                         user_kwargs_of(func, kwargs))
         IN  IF IsRaised(fault) THEN Outcome(<<>>, fault)
             ELSE invoke(kwargs)

\* the operations decorated with check_arguments: `name` is a declared
\* parameter and a field of the schema, `partition` a declared parameter the
\* schema does not know; the wrapper child is there, is not given, or is not
\* in the schema
ArgFuncs ==
    {[element_name |-> "addLine", child |-> c,
      parameters |-> <<"self", "name", "partition", "kwargs">>] :
        c \in {"line", "", "phone"}}

\* keywords a caller may supply
ArgKeys == {"name", "description", "lines", "partition", "x", "line"}

ArgValue(k) ==
    IF k = "lines" THEN Dict(<<Item("bogus", StrV("v"))>>) ELSE StrV("v")

\* keyword mappings of up to two distinct keys, in either order
ArgKwargs ==
    {Dict(<<>>)}
    \cup {Dict(<<Item(k, ArgValue(k))>>) : k \in ArgKeys}
    \cup {Dict(<<Item(p[1], ArgValue(p[1])), Item(p[2], ArgValue(p[2]))>>) :
             p \in {q \in ArgKeys \X ArgKeys : q[1] # q[2]}}

\* a caller calls an operation decorated with check_arguments
CheckArguments ==
    /\ w_pc = "idle"
    /\ \E func \in ArgFuncs, kwargs \in ArgKwargs :
          LET o == check_arguments(schema, func, kwargs)
          IN  /\ w_func' = func
              /\ w_kwargs' = kwargs
              /\ w_calls' = o.calls
              /\ w_result' = o.result
    /\ w_pc' = "args"
    /\ UNCHANGED <<w_transport, extractVars, shapeVars, toolVars>>

\* the schemas the decorated calls run against
WrapSchemas == {AXLElement({}), AXLElement(Nodes)}

InitWrap ==
    /\ schema \in WrapSchemas
    /\ ExtractIdle
    /\ WrapIdle
    /\ ShapeIdle
    /\ ToolsIdle

NextWrap == CheckTags \/ CheckTagsAgain \/ CheckArguments

SpecWrap == InitWrap /\ [][NextWrap]_vars

\* the position names the decorator the call went through
TagsCalled == w_pc \in {"tags", "tags again"}
ArgsCalled == w_pc = "args"

(***************************************************************************)
(* Properties of the decorated calls                                       *)
(***************************************************************************)
\* return_tags was supplied by the caller
TagsSupplied == HasKey(w_kwargs, "return_tags")
SuppliedTags == ValueOf(w_kwargs, "return_tags")

\* the caller asks for nothing in particular: return_tags=[] or, on an
\* operation whose default is the empty list, no return_tags at all
EmptySelection ==
    \/ TagsSupplied /\ SuppliedTags = List(<<>>)
    \/ ~TagsSupplied /\ w_func.tags_param.default = List(<<>>)

\* the caller supplies a flat list of at least one name
FlatSelection ==
    /\ TagsSupplied
    /\ IsList(SuppliedTags)
    /\ SuppliedTags.elems # <<>>
    /\ \A i \in 1..Len(SuppliedTags.elems) : SuppliedTags.elems[i].t = "str"

\* the names of the fields the operation's schema allows
LegalTagNames ==
    {schema[schema[ReturnedTags].children[i]].name :
        i \in 1..Len(schema[ReturnedTags].children)}

\* places of the supplied names that are not legal
IllegalPlaces ==
    {i \in 1..Len(SuppliedTags.elems) :
        SuppliedTags.elems[i].s \notin LegalTagNames}

\* C11: when the caller passes return_tags=[] or omits return_tags on an
\* operation whose default is the empty list, the wrapped operation is
\* invoked (once) with the map holding every immediate legal field name of
\* the schema, each mapped to an empty marker, and that map is what reaches
\* the transport.
C11_EmptySelectionResolvesToAll ==
    (w_pc = "tags" /\ EmptySelection) =>
        /\ Len(w_calls) = 1
        /\ HasKey(w_calls[1], "return_tags")
        /\ ValueOf(w_calls[1], "return_tags") = List(<<w_transport>>)
        /\ IsDict(w_transport)
        /\ Keys(w_transport) = LegalTagNames
        /\ Len(w_transport.items) = Cardinality(LegalTagNames)
        /\ \A k \in Keys(w_transport) : ValueOf(w_transport, k) = Dict(<<>>)

C11_Witness ==
    /\ w_pc = "tags"
    /\ TagsSupplied
    /\ SuppliedTags = List(<<>>)
    /\ w_func.tags_param.default # List(<<>>)
    /\ Len(w_calls) = 1
    /\ w_transport = Dict(<<Item("name", Dict(<<>>)),
                            Item("description", Dict(<<>>)),
                            Item("lines", Dict(<<>>))>>)

\* C12: when a name of a non-empty flat tag list is not, letter for letter,
\* a legal field name of the schema, the call raises a Validation Fault that
\* names the operation and the first such name, gives nothing else back, and
\* the wrapped operation is never invoked.
C12_IllegalTagFailsFast ==
    (w_pc = "tags" /\ FlatSelection /\ IllegalPlaces # {}) =>
        /\ w_result =
              Raised([fault |-> "Validation",
                      op |-> w_func.element_name,
                      field |-> SuppliedTags.elems[
                          CHOOSE i \in IllegalPlaces :
                              \A j \in IllegalPlaces : i <= j].s])
        /\ w_calls = <<>>
        /\ w_transport = None

C12_Witness ==
    /\ w_pc = "tags"
    /\ FlatSelection
    /\ SuppliedTags = List(<<StrV("name"), StrV("Name")>>)
    /\ IsRaised(w_result)
    /\ w_result.exc.field = "Name"
    /\ w_calls = <<>>

\* C13: when the requested tags are the single-element form carrying a
\* nested mapping, the wrapped operation is invoked and the tag map handed
\* to the transport is exactly that mapping; no fault is raised for what the
\* mapping holds.
C13_NestedFormPassesThrough ==
    (w_pc = "tags" /\ TagsSupplied /\ IsNestedForm(SuppliedTags)) =>
        /\ Len(w_calls) = 1
        /\ w_transport = SuppliedTags.elems[1]
        /\ w_result = Response

C13_Witness ==
    /\ w_pc = "tags"
    /\ TagsSupplied
    /\ IsNestedForm(SuppliedTags)
    /\ IsDict(w_transport)
    /\ HasKey(w_transport, "lines")
    /\ ValueOf(w_transport, "lines") = Dict(<<Item("pattern", StrV(""))>>)

\* C14: resolving the result of a resolution again gives the same canonical
\* map: a second call with the return_tags the wrapped operation was handed
\* invokes it again with the same return_tags and hands the same map to the
\* transport.
C14_ResolutionIdempotent ==
    w_pc = "tags again" =>
        /\ Len(w_calls) = 2
        /\ HasKey(w_calls[2], "return_tags")
        /\ ValueOf(w_calls[2], "return_tags")
              = ValueOf(w_calls[1], "return_tags")
        /\ w_transport = tag_handler(ValueOf(w_calls[1], "return_tags"))
        /\ w_result = Response

C14_Witness ==
    /\ w_pc = "tags again"
    /\ FlatSelection
    /\ SuppliedTags = List(<<StrV("lines"), StrV("name")>>)
    /\ Len(w_calls) = 2
    /\ w_transport = Dict(<<Item("lines", Dict(<<Item("pattern", Dict(<<>>))>>)),
                            Item("name", Dict(<<>>))>>)

\* the schema node the keywords are validated against
ArgNode == resolve_child(schema, w_func.child)

\* the key at place i of the caller's keywords is no child of that node
IllegalKeyAt(i) == get(schema, ArgNode, w_kwargs.items[i].k) = NoNode

\* the key at place i is no declared parameter of the wrapped function
UndeclaredAt(i) ==
    \A j \in 1..Len(w_func.parameters) :
        w_func.parameters[j] # w_kwargs.items[i].k

\* the gate: a key among `places` that is no child of the node makes the call
\* fail with a fault naming the first such key, without invoking the wrapped
\* operation; otherwise the operation is invoked once with the caller's
\* keywords as they are
GateOn(places) ==
    LET bad == {i \in places : IllegalKeyAt(i)}
    IN  IF bad # {}
        THEN /\ w_result =
                   Raised([fault |-> "Validation",
                           op |-> w_func.element_name,
                           field |-> w_kwargs.items[
                               CHOOSE i \in bad : \A j \in bad : i <= j].k])
             /\ w_calls = <<>>
        ELSE /\ w_calls = <<w_kwargs>>
             /\ w_result = Response

\* C15 as stated: every caller-supplied keyword goes through the gate: if
\* any of them is not a child name of the schema node (after descending
\* into child) the call fails with a Validation Fault naming the first
\* offending key and the wrapped operation is not invoked; if all are legal
\* it is invoked exactly once with the same arguments.
C15_EveryKeywordGated ==
    (ArgsCalled /\ ArgNode # NoNode) => GateOn(1..Len(w_kwargs.items))

\* C15, amended: the gate covers the keywords that are not declared
\* parameters of the wrapped function: if any of those is not a child name
\* of the schema node the call fails with a Validation Fault naming the
\* first such key and the wrapped operation is not invoked; otherwise it is
\* invoked exactly once with the same arguments.
C15_UndeclaredKeywordsGated ==
    (ArgsCalled /\ ArgNode # NoNode) =>
        GateOn({i \in 1..Len(w_kwargs.items) : UndeclaredAt(i)})

C15_Witness ==
    /\ ArgsCalled
    /\ w_func.child = "line"
    /\ w_kwargs = Dict(<<Item("partition", StrV("v")), Item("x", StrV("v"))>>)
    /\ IsRaised(w_result)
    /\ w_result.exc.field = "x"
    /\ w_calls = <<>>

(***************************************************************************)
(* Part 3: serialize and _tag_serialize_filter                             *)
(*                                                                         *)
(* The shaper works on objects: working_data is a deep copy of data taken  *)
(* before the walk, d_copy a shallow copy that shares its list values with *)
(* the mapping it was copied from.  A call is therefore described by two   *)
(* values: what it returns, and what its argument holds afterwards.        *)
(***************************************************************************)
\* cucm.axl.configs: the serializer is not switched off
DISABLE_SERIALIZER == FALSE

\* the key under which the wire representation wraps a value
WrapperKey == "_value_1"

RECURSIVE check_value(_)
RECURSIVE check_list(_)
RECURSIVE check_value_arg(_)

\* every element is handed to check_value, mapping or not
check_list_All(value) ==
    List([i \in 1..Len(value.elems) |-> check_value(value.elems[i])])

\* the elements of the list after `value[i] = check_value(d)` ran over it:
\* mapping elements are replaced, the others stay
check_list(value) ==
    List([i \in 1..Len(value.elems) |->
            IF IsDict(value.elems[i]) THEN check_value(value.elems[i])
            ELSE value.elems[i]])

\* d_copy[tag] after the loop body of check_value ran for value
check_item(value) ==
    IF IsDict(value)
    THEN IF HasKey(value, WrapperKey) THEN ValueOf(value, WrapperKey)
         ELSE check_value(value)
    ELSE IF IsList(value) THEN check_list(value)
    ELSE value

\* what check_value(d) returns; d.copy() of anything but a mapping fails
check_value(d) ==
    IF ~IsDict(d) THEN Raised("AttributeError")
    ELSE Dict([i \in 1..Len(d.items) |->
                 Item(d.items[i].k, check_item(d.items[i].v))])

\* what the mapping handed to check_value holds after the call: its list
\* values are the ones d_copy shares, the mappings below it were themselves
\* handed to check_value, a wrapped value was only read
check_value_arg(d) ==
    Dict([i \in 1..Len(d.items) |->
            Item(d.items[i].k,
                 LET value == d.items[i].v
                 IN  IF IsDict(value)
                     THEN IF HasKey(value, WrapperKey) THEN value
                          ELSE check_value_arg(value)
                     ELSE IF IsList(value) THEN check_list(value)
                     ELSE value)])

\* tag not in tags, for a list of tags or a mapping
not_in(tag, tags) ==
    IF IsList(tags)
    THEN \A i \in 1..Len(tags.elems) : tags.elems[i] # StrV(tag)
    ELSE ~HasKey(tags, tag)

\* len(tags)
len(tags) == IF IsList(tags) THEN Len(tags.elems) ELSE Len(tags.items)

\* the field is popped from working_data
dropped(tags, tag, value) ==
    not_in(tag, tags) /\ len(tags) > 0 /\ value = None

\* working_data[tag] after the loop body ran for (tag, value): a list value
\* is the deep copy taken before the walk
filter_item(value) ==
    IF IsDict(value)
    THEN IF HasKey(value, WrapperKey) THEN ValueOf(value, WrapperKey)
         ELSE check_value(value)
    ELSE value

\* what _tag_serialize_filter(tags, data) returns
tag_serialize_filter(tags, data) ==
    IF ~IsDict(data) THEN Raised("AttributeError")
    ELSE LET kept == SelectSeq(data.items,
                         LAMBDA it : ~dropped(tags, it.k, it.v))
         IN  Dict([i \in 1..Len(kept) |->
                     Item(kept[i].k, filter_item(kept[i].v))])

\* what data holds after _tag_serialize_filter(tags, data)
tag_serialize_filter_arg(tags, data) ==
    IF ~IsDict(data) THEN data
    ELSE Dict([i \in 1..Len(data.items) |->
                 Item(data.items[i].k,
                      LET value == data.items[i].v
                      IN  IF IsDict(value)
                          THEN IF HasKey(value, WrapperKey) THEN value
                               ELSE check_value_arg(value)
                          ELSE IF IsList(value) THEN check_list(value)
                          ELSE value)])

\* what a wrapped function returns: None, a Fault, or a zeep object, given
\* by the mapping serialize_object makes of it
Fault == [t |-> "Fault"]
Zeep(d) == [t |-> "zeep", dict |-> d]

\* serialize_object(r_value, dict)
serialize_object(r_value) == r_value.dict

\* what a call through serialize comes to: the tags and the mapping handed
\* to the shaper (None when it is not reached), the mapping afterwards, and
\* what the caller gets
Shaping(tags, data) ==
    [tags |-> tags, data0 |-> data,
     data |-> tag_serialize_filter_arg(tags, data),
     ret |-> tag_serialize_filter(tags, data)]

Unshaped(result) ==
    [tags |-> None, data0 |-> None, data |-> None, ret |-> result]

\* the wrapper of serialize(func), func having returned r_value
serialize(func, kwargs, r_value) ==
    IF DISABLE_SERIALIZER THEN Unshaped(r_value)
    ELSE IF r_value = None THEN Unshaped(Dict(<<>>))
    ELSE IF r_value = Fault THEN Unshaped(Raised("AXLFault"))
    ELSE IF ~HasKey(kwargs, "return_tags") /\ func.tags_param # None
    THEN Shaping(func.tags_param.default, serialize_object(r_value))
    ELSE IF HasKey(kwargs, "return_tags")
    THEN Shaping(ValueOf(kwargs, "return_tags"), serialize_object(r_value))
    ELSE Unshaped(serialize_object(r_value))

(***************************************************************************)
(* Calls through serialize                                                 *)
(***************************************************************************)
\* a value in its wire wrapper, alone and next to another key
Wrapped(v) == Dict(<<Item(WrapperKey, v)>>)
WrappedWithUuid(v) == Dict(<<Item(WrapperKey, v), Item("uuid", StrV("u"))>>)

\* values of the field `name`
ShapeNameVals ==
    {None, StrV("DN1"), Wrapped(StrV("DN1")), WrappedWithUuid(StrV("DN1")),
     Dict(<<Item("uuid", StrV("u"))>>)}

\* elements of a sequence: mappings with and without a wrapper inside, a
\* mapping holding a sequence, and elements that are no mapping
ShapeElems ==
    {Dict(<<Item("dirn", Wrapped(StrV("1001")))>>),
     Dict(<<Item("dirn", StrV("1001"))>>),
     Dict(<<Item("sub", List(<<Dict(<<Item("dirn", Wrapped(StrV("1001")))>>)>>))>>),
     StrV("s"),
     List(<<Dict(<<Item("dirn", Wrapped(StrV("1001")))>>)>>)}

ShapeLists == {List(q) : q \in SeqsUpTo(ShapeElems, MaxListLen)}

\* values of the field `lines`: a sequence at the top level, one level and
\* two levels down, a wrapper holding a wrapper, a wrapper holding a
\* sequence, and None
ShapeLinesVals ==
    {None, Wrapped(Wrapped(StrV("1001")))}
    \cup ShapeLists
    \cup {Dict(<<Item("line", l)>>) : l \in ShapeLists}
    \cup {Dict(<<Item("inner", Dict(<<Item("line", l)>>))>>) :
             l \in {List(<<e>>) : e \in ShapeElems}}
    \cup {Wrapped(l) : l \in {List(<<e>>) : e \in ShapeElems}}

\* the raw responses
ShapeData ==
    {Dict(n \o d \o l) : n \in Opt("name", ShapeNameVals),
                         d \in Opt("desc", {None}),
                         l \in Opt("lines", ShapeLinesVals)}

\* tag selections: empty, flat lists, single-element nested forms
ShapeTags ==
    {List(<<>>), List(<<StrV("name")>>),
     List(<<StrV("name"), StrV("desc")>>), List(<<StrV("lines")>>),
     List(<<Dict(<<Item("name", StrV(""))>>)>>),
     List(<<Dict(<<Item("name", StrV("")), Item("desc", StrV("")),
                   Item("lines", StrV(""))>>)>>)}

\* the operations decorated with serialize: with a return_tags parameter
\* whose default is empty or names a field, and without one
SerFuncs ==
    {[tags_param |-> [kind |-> "KEYWORD_ONLY", default |-> d]] :
        d \in {List(<<>>), List(<<StrV("name")>>)}}
    \cup {[tags_param |-> None]}

\* a caller calls an operation decorated with serialize
Serialize ==
    /\ s_pc = "idle"
    /\ \E func \in SerFuncs, t \in Opt("return_tags", ShapeTags),
          r_value \in {None, Fault} \cup {Zeep(d) : d \in ShapeData} :
          LET o == serialize(func, Dict(t), r_value)
          IN  /\ s_tags' = o.tags
              /\ s_data0' = o.data0
              /\ s_data' = o.data
              /\ s_ret' = o.ret
              /\ s_pc' = IF o.tags = None THEN "done" ELSE "shaped"
    /\ UNCHANGED <<schema, extractVars, wrapVars, toolVars>>

InitShape ==
    /\ schema = AXLElement({})
    /\ ExtractIdle
    /\ WrapIdle
    /\ ShapeIdle
    /\ ToolsIdle

NextShape == Serialize

SpecShape == InitShape /\ [][NextShape]_vars

(***************************************************************************)
(* Properties of the response shaper                                       *)
(***************************************************************************)
\* the shaper ran and the state holds its argument and its result
Shaped == s_pc = "shaped"

\* the fields of the raw response that are in the result as well
KeptFields == {k \in Keys(s_data0) : IsDict(s_ret) /\ HasKey(s_ret, k)}

\* the mapping value is a wrapper and nothing else
ExactlyWrapper(v) == IsDict(v) /\ Keys(v) = {WrapperKey}

\* the mapping value has the wrapper key and others next to it
WrapperAndMore(v) ==
    /\ IsDict(v)
    /\ HasKey(v, WrapperKey)
    /\ Keys(v) # {WrapperKey}

\* the shaped value o stands where the raw value v stood: an exact wrapper
\* has given way to the value it wrapped, a mapping with further keys still
\* has them, and the same holds inside mappings and sequence elements
RECURSIVE CollapsedAt(_, _)
CollapsedAt(v, o) ==
    IF ExactlyWrapper(v) THEN o = ValueOf(v, WrapperKey)
    ELSE IF IsDict(v)
    THEN /\ IsDict(o)
         /\ Keys(v) \ {WrapperKey} \subseteq Keys(o)
         /\ \A k \in Keys(v) \ {WrapperKey} :
               CollapsedAt(ValueOf(v, k), ValueOf(o, k))
    ELSE IF IsList(v)
    THEN /\ IsList(o)
         /\ Len(o.elems) = Len(v.elems)
         /\ \A i \in 1..Len(v.elems) :
               IsDict(v.elems[i]) => CollapsedAt(v.elems[i], o.elems[i])
    ELSE TRUE

\* C16: in the shaped result, at every depth, a mapping value that holds
\* exactly the wrapper key "_value_1" is replaced by the wrapped value, and
\* a mapping that has other keys besides the wrapper key is not collapsed:
\* its other keys are still there.
C16_WrapperCollapse ==
    Shaped =>
        \A k \in KeptFields :
            CollapsedAt(ValueOf(s_data0, k), ValueOf(s_ret, k))

\* the caller asked for the field: by name in a flat list, or as a key of
\* the mapping carried by the single-element nested form
Requested(tag) ==
    \/ /\ IsList(s_tags)
       /\ \E i \in 1..Len(s_tags.elems) :
             \/ s_tags.elems[i] = StrV(tag)
             \/ IsDict(s_tags.elems[i]) /\ HasKey(s_tags.elems[i], tag)
    \/ IsDict(s_tags) /\ HasKey(s_tags, tag)

\* C17: a field of the raw response whose value is None is missing from the
\* shaped result exactly when the caller did not request that field and the
\* tag selection has at least one entry; otherwise it is there with the
\* value None.
C17_AbsentFieldRule ==
    Shaped =>
        \A k \in Keys(s_data0) :
            ValueOf(s_data0, k) = None =>
                IF ~Requested(k) /\ len(s_tags) > 0
                THEN ~HasKey(s_ret, k)
                ELSE Holds(s_ret, k, None)

\* the shaped form of a mapping element: wrappers inside it collapsed, at
\* every depth
RECURSIVE ShapedForm(_)
ShapedForm(m) ==
    Dict([i \in 1..Len(m.items) |->
            Item(m.items[i].k,
                 LET v == m.items[i].v
                 IN  IF ExactlyWrapper(v) THEN ValueOf(v, WrapperKey)
                     ELSE IF IsDict(v) THEN ShapedForm(v)
                     ELSE IF IsList(v)
                     THEN List([j \in 1..Len(v.elems) |->
                                  IF IsDict(v.elems[j])
                                  THEN ShapedForm(v.elems[j])
                                  ELSE v.elems[j]])
                     ELSE v)])

\* every sequence at or below v is in o with its mapping elements shaped,
\* in the same order and number
RECURSIVE SequencesShaped(_, _)
SequencesShaped(v, o) ==
    IF IsList(v)
    THEN /\ IsList(o)
         /\ Len(o.elems) = Len(v.elems)
         /\ \A i \in 1..Len(v.elems) :
               IsDict(v.elems[i]) => o.elems[i] = ShapedForm(v.elems[i])
    ELSE IF IsDict(v) /\ ~HasKey(v, WrapperKey)
    THEN /\ IsDict(o)
         /\ \A k \in Keys(v) :
               HasKey(o, k) /\ SequencesShaped(ValueOf(v, k), ValueOf(o, k))
    ELSE TRUE

\* C18: for every sequence of the raw response, at the top level or deeper,
\* each mapping element is in the returned tree in its shaped form, with the
\* order and the number of the elements kept.
C18_SequencesShaped ==
    Shaped =>
        \A k \in KeptFields :
            SequencesShaped(ValueOf(s_data0, k), ValueOf(s_ret, k))

\* what is not a mapping is in o as it was in v: scalars, sequences inside
\* sequences, elements that are no mapping; a mapping is still a mapping
\* with the same keys
RECURSIVE PassedThrough(_, _)
PassedThrough(v, o) ==
    IF IsList(v)
    THEN /\ IsList(o)
         /\ Len(o.elems) = Len(v.elems)
         /\ \A i \in 1..Len(v.elems) :
               IF IsDict(v.elems[i])
               THEN IsDict(o.elems[i]) /\ Keys(o.elems[i]) = Keys(v.elems[i])
               ELSE o.elems[i] = v.elems[i]
    ELSE IF IsDict(v)
    THEN IF HasKey(v, WrapperKey) THEN o = ValueOf(v, WrapperKey)
         ELSE /\ IsDict(o)
              /\ Keys(o) = Keys(v)
              /\ \A k \in Keys(v) :
                    PassedThrough(ValueOf(v, k), ValueOf(o, k))
    ELSE o = v

C20_InputUntouched == Shaped => s_data = s_data0

(***************************************************************************)
(* Part 4: removability, order and the second pass of the extraction; the  *)
(* single-record operations, _chunk_data, _multithread and the cache of    *)
(* schema trees                                                            *)
(***************************************************************************)

(***************************************************************************)
(* C24 order of the output fields                                          *)
(***************************************************************************)
\* the place of the child called name among the children of node n
ChildIndex(n, name) ==
    CHOOSE i \in 1..Len(schema[n].children) :
        schema[schema[n].children[i]].name = name

\* the fields of out come in the order of the children of node n
InSchemaOrder(n, out) ==
    \A i \in 1..Len(out.items) : \A j \in 1..Len(out.items) :
        i < j => ChildIndex(n, out.items[i].k) < ChildIndex(n, out.items[j].k)

\* the source of the call lists two fields the schema knows in another order
\* than the schema does
SourceOutOfOrder ==
    /\ StartNode # NoNode
    /\ \E i \in 1..Len(template.items) : \E j \in 1..Len(template.items) :
          /\ i < j
          /\ get(schema, StartNode, template.items[i].k) # NoNode
          /\ get(schema, StartNode, template.items[j].k) # NoNode
          /\ ChildIndex(StartNode, template.items[i].k)
                > ChildIndex(StartNode, template.items[j].k)

\* C24: at every nesting level the fields of the extracted output appear in
\* the order of the schema node's children, whatever the order of the
\* fields in the source data tree.
C24_OutputInSchemaOrder ==
    Returned =>
        \A lv \in WalkedLevels :
            IsDict(OutputAt(lv)) => InSchemaOrder(lv.node, OutputAt(lv))

(***************************************************************************)
(* C23, C25 removability as the rule states it                             *)
(***************************************************************************)
RECURSIVE RemovableByRule(_)
RemovableByRule(m) ==
    \A i \in 1..Len(m.items) :
        LET v == m.items[i].v
        IN  CASE IsDict(v) -> RemovableByRule(v)
              [] IsList(v) ->
                    \/ v.elems = <<>>
                    \/ \A j \in 1..Len(v.elems) :
                          IsDict(v.elems[j]) /\ RemovableByRule(v.elems[j])
              [] OTHER -> v \in EmptySentinels

(***************************************************************************)
(* C25 the second pass                                                     *)
(***************************************************************************)
\* the first pass has returned a data tree, the second has run over it
SecondPassRan == pc = "done" /\ IsDict(matched)

\* required-in-context of the top-level field called name
TopRequired(name) == RequiredInContext(get(schema, StartNode, name))

\* what the second pass does to one field the first pass left
CleanupRule(name, value) ==
    IF TopRequired(name)
    THEN IF value = None THEN Holds(ret, name, Nil) ELSE Holds(ret, name, value)
    ELSE IF value \in EmptySentinels THEN ~HasKey(ret, name)
    ELSE IF IsDict(value) /\ RemovableByRule(value) THEN ~HasKey(ret, name)
    ELSE Holds(ret, name, value)

\* C25: for each top-level field the first pass left, the second pass turns
\* None at a required-in-context field into the explicit-null marker, drops
\* a field that is not required and holds None, -1 or "", drops a field that
\* is not required and holds a fully removable mapping, and leaves every
\* other field as it is; it adds no field.
C25_SecondPass ==
    SecondPassRan =>
        /\ IsDict(ret)
        /\ \A i \in 1..Len(matched.items) :
              CleanupRule(matched.items[i].k, matched.items[i].v)
        /\ Keys(ret) \subseteq Keys(matched)

\* the second pass has dropped a removable mapping and left another field
C25_Witness ==
    /\ SecondPassRan
    /\ \E i \in 1..Len(matched.items) :
          /\ ~TopRequired(matched.items[i].k)
          /\ IsDict(matched.items[i].v)
          /\ RemovableByRule(matched.items[i].v)
          /\ ~HasKey(ret, matched.items[i].k)
    /\ \E i \in 1..Len(matched.items) :
          Holds(ret, matched.items[i].k, matched.items[i].v)

(***************************************************************************)
(* C26 the second pass on shape-consistent input                           *)
(***************************************************************************)
\* mappings and sequences stand only at composite nodes, scalars only at
\* scalar nodes, at every level of the mapping m matched against node n
RECURSIVE ShapeConsistent(_, _)
ShapeConsistent(n, m) ==
    \A i \in 1..Len(m.items) :
        LET c == get(schema, n, m.items[i].k)
            v == m.items[i].v
        IN  c # NoNode =>
              IF schema[c].children = <<>>
              THEN ~IsDict(v) /\ ~IsList(v)
              ELSE \/ IsDict(v) /\ ShapeConsistent(c, v)
                   \/ /\ IsList(v)
                      /\ \A j \in 1..Len(v.elems) :
                            IsDict(v.elems[j]) => ShapeConsistent(c, v.elems[j])

\* C26: on a source tree in which mappings and sequences occur only at
\* composite schema nodes and scalars only at scalar schema nodes, what
\* __extract_template returns is what the first pass alone returns.
C26_CleanupRedundant ==
    (pc = "done" /\ StartNode # NoNode /\ ShapeConsistent(StartNode, template))
        => ret = matched

\* a shape-consistent call that returned a required and an optional field
C26_Witness ==
    /\ pc = "done" /\ StartNode # NoNode
    /\ ShapeConsistent(StartNode, template)
    /\ IsDict(ret)
    /\ \E i \in 1..Len(ret.items) : TopRequired(ret.items[i].k)
    /\ \E i \in 1..Len(ret.items) :
          ~TopRequired(ret.items[i].k) /\ IsDict(ret.items[i].v)

(***************************************************************************)
(* C27 check_tags raises or calls                                          *)
(***************************************************************************)
\* C27: whatever return_tags a caller supplies to an operation wrapped by
\* check_tags (none, an empty list, a list of names, the nested form, a
\* value that is no list), the wrapper either raises or invokes the wrapped
\* operation exactly once and returns what it returned.
C27_RaisesOrCalls ==
    w_pc = "tags" =>
        \/ IsRaised(w_result)
        \/ Len(w_calls) = 1 /\ w_result = Response

(***************************************************************************)
(* Single-record operations: by name or by uuid                            *)
(***************************************************************************)
\* a request handed to the AXL client: the operation and its keywords
Request(element, kwargs) == [element |-> element, kwargs |-> kwargs]

\* what a call comes to: the requests it made and what the caller gets
Sent(requests, result) == [requests |-> requests, result |-> result]

\* bool(v)
bool(v) == v \notin {None, StrV(""), IntV(0), BoolV(FALSE), Dict(<<>>), List(<<>>)}

\* the precedence turned round: a name, when there is one, wins
get_location_NameFirst(name, uuid, answer) ==
    IF name # ""
    THEN Sent(<<Request("getLocation", Dict(<<Item("name", StrV(name))>>))>>,
              answer)
    ELSE IF uuid # ""
    THEN Sent(<<Request("getLocation", Dict(<<Item("uuid", StrV(uuid))>>))>>,
              answer)
    ELSE Sent(<<>>, None)

\* Axl.get_location, the decorators apart; a Fault is returned, not raised
get_location(name, uuid, answer) ==
    IF name # "" /\ uuid = ""
    THEN Sent(<<Request("getLocation", Dict(<<Item("name", StrV(name))>>))>>,
              answer)
    ELSE IF uuid # ""
    THEN Sent(<<Request("getLocation", Dict(<<Item("uuid", StrV(uuid))>>))>>,
              answer)
    ELSE Sent(<<>>, None)

\* Axl.delete_location
delete_location(name, uuid, answer) ==
    IF name # "" /\ uuid = ""
    THEN Sent(<<Request("removeLocation", Dict(<<Item("name", StrV(name))>>))>>,
              answer)
    ELSE IF uuid # ""
    THEN Sent(<<Request("removeLocation", Dict(<<Item("uuid", StrV(uuid))>>))>>,
              answer)
    ELSE Sent(<<>>, None)

\* Axl.do_device_reset, the decorators apart; without an else branch the
\* function falls off its end and returns None
do_device_reset(name, uuid, answer) ==
    IF name # "" /\ uuid = ""
    THEN Sent(<<Request("doDeviceReset",
                        Dict(<<Item("deviceName", StrV(name)),
                               Item("isHardReset", BoolV(TRUE))>>))>>,
              answer)
    ELSE IF uuid # ""
    THEN Sent(<<Request("doDeviceReset",
                        Dict(<<Item("uuid", StrV(uuid)),
                               Item("isHardReset", BoolV(TRUE))>>))>>,
              answer)
    ELSE Sent(<<>>, None)

\* the operations the AXL client has (getattr finds them)
ServiceOperations ==
    {"getLocation", "removeLocation", "doDeviceReset", "getRoutePartition",
     "getGateway", "getGatewaySccpEndpoints", "listLine"}

\* result[key]: TypeError on what cannot be subscripted, KeyError on a
\* missing key, both turned into DumbProgrammerException
subscript(result, key) ==
    IF result.t # "zeep" THEN Raised("DumbProgrammerException")
    ELSE IF ~HasKey(result.dict, key) THEN Raised("DumbProgrammerException")
    ELSE LET v == ValueOf(result.dict, key)
         IN  IF IsDict(v) THEN Zeep(v) ELSE v

\* for key in wanted_keys: result = result[key], from the i-th key on
RECURSIVE extract_keys(_, _, _)
extract_keys(result, wanted_keys, i) ==
    IF i > Len(wanted_keys) THEN result
    ELSE LET r == subscript(result, wanted_keys[i])
         IN  IF IsRaised(r) THEN r ELSE extract_keys(r, wanted_keys, i + 1)

\* Axl._base_soap_call
base_soap_call(element_name, msg_kwargs, wanted_keys, answer) ==
    IF element_name \notin ServiceOperations
    THEN Sent(<<>>, Raised("DumbProgrammerException"))
    ELSE IF answer = Fault
    THEN Sent(<<Request(element_name, msg_kwargs)>>, Raised("AXLFault"))
    ELSE IF IsList(answer)
    THEN Sent(<<Request(element_name, msg_kwargs)>>, answer)
    ELSE Sent(<<Request(element_name, msg_kwargs)>>,
              extract_keys(answer, wanted_keys, 1))

\* Axl._base_soap_call_uuid
base_soap_call_uuid(element_name, msg_kwargs, wanted_keys, non_uuid_value, answer) ==
    IF ~HasKey(msg_kwargs, "uuid")
    THEN Sent(<<>>, Raised("DumbProgrammerException"))
    ELSE IF bool(ValueOf(msg_kwargs, "uuid"))
    THEN base_soap_call(element_name, dict_pop(msg_kwargs, non_uuid_value),
                        wanted_keys, answer)
    ELSE base_soap_call(element_name, dict_pop(msg_kwargs, "uuid"),
                        wanted_keys, answer)

\* the body of Axl.get_route_partition
get_route_partition(name, uuid, return_tags, answer) ==
    LET tags == tag_handler(return_tags)
    IN  IF IsRaised(tags) THEN Sent(<<>>, tags)
        ELSE base_soap_call_uuid("getRoutePartition",
                                 Dict(<<Item("name", StrV(name)),
                                        Item("uuid", StrV(uuid)),
                                        Item("returnedTags", tags)>>),
                                 <<"return", "routePartition">>, "name", answer)

\* the body of Axl.get_gateway
get_gateway(device_name, uuid, return_tags, answer) ==
    LET tags == tag_handler(return_tags)
    IN  IF IsRaised(tags) THEN Sent(<<>>, tags)
        ELSE base_soap_call_uuid("getGateway",
                                 Dict(<<Item("domainName", StrV(device_name)),
                                        Item("uuid", StrV(uuid)),
                                        Item("returnedTags", tags)>>),
                                 <<"return", "gateway">>, "domainName", answer)

\* the body of Axl.get_endpoint
get_endpoint(name, uuid, return_tags, answer) ==
    LET tags == tag_handler(return_tags)
    IN  IF IsRaised(tags) THEN Sent(<<>>, tags)
        ELSE base_soap_call_uuid("getGatewaySccpEndpoints",
                                 Dict(<<Item("name", StrV(name)),
                                        Item("uuid", StrV(uuid)),
                                        Item("returnedTags", tags)>>),
                                 <<"return", "gatewaySccpEndpoints">>, "name",
                                 answer)

\* the operations routed through _base_soap_call_uuid: the element they are
\* checked against and the key their answer sits under
UuidOps ==
    {[op |-> "get_route_partition", element_name |-> "getRoutePartition",
      wanted |-> "routePartition"],
     [op |-> "get_gateway", element_name |-> "getGateway", wanted |-> "gateway"],
     [op |-> "get_endpoint", element_name |-> "getGatewaySccpEndpoints",
      wanted |-> "gatewaySccpEndpoints"]}

uuid_body(u, name, uuid, return_tags, answer) ==
    CASE u.op = "get_route_partition" ->
            get_route_partition(name, uuid, return_tags, answer)
      [] u.op = "get_gateway" -> get_gateway(name, uuid, return_tags, answer)
      [] u.op = "get_endpoint" -> get_endpoint(name, uuid, return_tags, answer)

\* a function without a return_tags parameter, as serialize sees it
NoTagsParam == [tags_param |-> None]

\* a function with `*, return_tags=[]`, as check_tags and serialize see it
TagsParam(element_name) ==
    [element_name |-> element_name,
     tags_param |-> [kind |-> "KEYWORD_ONLY", default |-> List(<<>>)]]

\* @serialize on top of a body that came to o
serialized(func, kwargs, o) ==
    IF IsRaised(o.result) THEN o
    ELSE Sent(o.requests, serialize(func, kwargs, o.result).ret)

\* @serialize @check_tags(element_name) on top of a body through
\* _base_soap_call_uuid; each wrapper has a kwargs mapping of its own
uuid_operation(S, u, name, uuid, kwargs, answer) ==
    LET func == TagsParam(u.element_name)
        checked == check_tags(S, func, kwargs)
        body == IF checked.calls = <<>> THEN Sent(<<>>, checked.result)
                ELSE uuid_body(u, name, uuid,
                               return_tags_of(func, checked.calls[1]), answer)
    IN  serialized(func, kwargs, body)

\* the names and uuids callers pass; "" is the default of both parameters
RecordNames == {"", "HQ"}
RecordUuids == {"", "1A2B"}

\* what the server answers a request with
RecordAnswers(wanted) ==
    {Fault,
     Zeep(Dict(<<Item("return",
                      Dict(<<Item(wanted,
                                  Dict(<<Item("name", StrV("HQ")),
                                         Item("uuid", StrV("1A2B")),
                                         Item("description", None)>>))>>))>>)),
     Zeep(Dict(<<Item("return", None)>>))}

OpCall(op, name, uuid, kwargs) ==
    [op |-> op, name |-> name, uuid |-> uuid, kwargs |-> kwargs]

GetLocation ==
    /\ o_pc = "idle"
    /\ \E name \in RecordNames, uuid \in RecordUuids,
          answer \in RecordAnswers("location") :
          LET o == serialized(NoTagsParam, Dict(<<>>),
                              get_location(name, uuid, answer))
          IN  /\ o_call' = OpCall("get_location", name, uuid, Dict(<<>>))
              /\ o_requests' = o.requests
              /\ o_ret' = o.result
    /\ o_pc' = "done"
    /\ UNCHANGED <<schema, extractVars, wrapVars, shapeVars, chunkVars,
                   threadVars, cacheVars>>

DeleteLocation ==
    /\ o_pc = "idle"
    /\ \E name \in RecordNames, uuid \in RecordUuids,
          answer \in RecordAnswers("location") :
          LET o == delete_location(name, uuid, answer)
          IN  /\ o_call' = OpCall("delete_location", name, uuid, Dict(<<>>))
              /\ o_requests' = o.requests
              /\ o_ret' = o.result
    /\ o_pc' = "done"
    /\ UNCHANGED <<schema, extractVars, wrapVars, shapeVars, chunkVars,
                   threadVars, cacheVars>>

DoDeviceReset ==
    /\ o_pc = "idle"
    /\ \E name \in RecordNames, uuid \in RecordUuids,
          answer \in RecordAnswers("device") :
          LET o == serialized(NoTagsParam, Dict(<<>>),
                              do_device_reset(name, uuid, answer))
          IN  /\ o_call' = OpCall("do_device_reset", name, uuid, Dict(<<>>))
              /\ o_requests' = o.requests
              /\ o_ret' = o.result
    /\ o_pc' = "done"
    /\ UNCHANGED <<schema, extractVars, wrapVars, shapeVars, chunkVars,
                   threadVars, cacheVars>>

\* get_route_partition, get_gateway or get_endpoint, with and without
\* return_tags
GetByUuid ==
    /\ o_pc = "idle"
    /\ \E u \in UuidOps, name \in RecordNames, uuid \in RecordUuids,
          t \in Opt("return_tags", {List(<<>>), List(<<StrV("name")>>)}) :
          \E answer \in RecordAnswers(u.wanted) :
             LET o == uuid_operation(schema, u, name, uuid, Dict(t), answer)
             IN  /\ o_call' = OpCall(u.op, name, uuid, Dict(t))
                 /\ o_requests' = o.requests
                 /\ o_ret' = o.result
    /\ o_pc' = "done"
    /\ UNCHANGED <<schema, extractVars, wrapVars, shapeVars, chunkVars,
                   threadVars, cacheVars>>

(***************************************************************************)
(* is_removable on its own                                                 *)
(***************************************************************************)
\* scalars, empty and not
RemScalars == {None, IntV(-1), StrV(""), IntV(0), BoolV(FALSE), StrV("x"), Nil}

\* mappings one and two levels deep
RemInner == {Dict(a) : a \in Opt("a", RemScalars)}
RemNested == {Dict(<<Item("b", d)>>) : d \in RemInner}

\* sequences of mappings and of other things
RemElems == {Dict(<<>>), Dict(<<Item("a", None)>>), Dict(<<Item("a", StrV("x"))>>),
             Dict(<<Item("b", Dict(<<Item("a", StrV(""))>>))>>), None, StrV("")}
RemLists == {List(q) : q \in SeqsUpTo(RemElems, MaxListLen)}

\* the mappings is_removable is asked about
Branches ==
    {Dict(p \o q) :
        p \in Opt("p", RemScalars \cup RemInner \cup RemNested \cup RemLists
                       \cup {Dict(<<Item("l", l)>>) : l \in RemLists}),
        q \in Opt("q", {None, StrV("x"), Dict(<<>>), List(<<>>)})}

\* is_removable(branch) is evaluated
IsRemovable ==
    /\ o_pc = "idle"
    /\ \E branch \in Branches :
          /\ o_call' = [op |-> "is_removable", branch |-> branch]
          /\ o_ret' = BoolV(is_removable(branch))
    /\ o_requests' = <<>>
    /\ o_pc' = "done"
    /\ UNCHANGED <<schema, extractVars, wrapVars, shapeVars, chunkVars,
                   threadVars, cacheVars>>

InitOps ==
    /\ schema = AXLElement({})
    /\ ExtractIdle
    /\ WrapIdle
    /\ ShapeIdle
    /\ ToolsIdle

NextOps ==
    GetLocation \/ DeleteLocation \/ DoDeviceReset \/ GetByUuid \/ IsRemovable

SpecOps == InitOps /\ [][NextOps]_vars

(***************************************************************************)
(* C22 name and uuid                                                       *)
(***************************************************************************)
LocalOps == {"get_location", "delete_location", "do_device_reset"}
RoutedOps == {u.op : u \in UuidOps}

\* a single-record operation has been called
OpCalled ==
    /\ o_pc = "done"
    /\ o_call.op \in LocalOps \cup RoutedOps

\* the keyword the name travels under
NameKey(op) ==
    CASE op = "do_device_reset" -> "deviceName"
      [] op = "get_gateway" -> "domainName"
      [] OTHER -> "name"

\* the call made one request, which carries key with value val and does not
\* carry the key other
CarriesOnly(key, val, other) ==
    /\ Len(o_requests) = 1
    /\ Holds(o_requests[1].kwargs, key, StrV(val))
    /\ ~HasKey(o_requests[1].kwargs, other)

\* C22: get_location, delete_location, do_device_reset and the operations
\* routed through _base_soap_call_uuid send the uuid and not the name when
\* a uuid is supplied, with or without a name; the name and not the uuid
\* when only a name is supplied; and the first three send nothing when
\* neither is supplied.
C22_NameUuidPrecedence ==
    OpCalled =>
        /\ o_call.uuid # "" =>
              CarriesOnly("uuid", o_call.uuid, NameKey(o_call.op))
        /\ (o_call.uuid = "" /\ o_call.name # "") =>
              CarriesOnly(NameKey(o_call.op), o_call.name, "uuid")
        /\ (o_call.uuid = "" /\ o_call.name = "" /\ o_call.op \in LocalOps) =>
              o_requests = <<>>

\* get_location was called with a name and a uuid and asked by uuid
C22_Witness ==
    /\ OpCalled
    /\ o_call.op = "get_location"
    /\ o_call.name # "" /\ o_call.uuid # ""
    /\ CarriesOnly("uuid", o_call.uuid, "name")

(***************************************************************************)
(* C23 removability                                                        *)
(***************************************************************************)
RemovableAsked == o_pc = "done" /\ o_call.op = "is_removable"

\* C23: a mapping is removable if and only if each of its scalar values is
\* None, -1 or "", each nested mapping is removable and each sequence is
\* empty or holds removable mappings only; the empty mapping is removable.
C23_RemovableIff ==
    RemovableAsked => (o_ret = BoolV(RemovableByRule(o_call.branch)))

\* a mapping with a sequence of removable mappings was found removable, and
\* so was the empty mapping
C23_Witness ==
    /\ RemovableAsked
    /\ o_ret = BoolV(TRUE)
    /\ \E i \in 1..Len(o_call.branch.items) :
          /\ IsList(o_call.branch.items[i].v)
          /\ Len(o_call.branch.items[i].v.elems) = 2

(***************************************************************************)
(* _chunk_data                                                             *)
(***************************************************************************)
\* longest script of answers the remote is given
MaxPages == 3

\* first=1000
First == 1000

\* skip += 1000
SkipStep == 1000

\* data_label of the caller (get_directory_numbers)
DataLabel == "line"

\* the keywords the caller passes on to every request
ListKwargs ==
    Dict(<<Item("searchCriteria", Dict(<<Item("pattern", StrV("%"))>>)),
           Item("returnedTags", Dict(<<Item("pattern", StrV(""))>>))>>)

\* what the remote answers one request with: a page of rows, no page, or a
\* Fault
Page(rows) ==
    Dict(<<Item("return", Dict(<<Item(DataLabel, List(rows))>>))>>)
NoPage == Dict(<<Item("return", None)>>)
PageRows == {<<StrV("a")>>, <<StrV("b"), StrV("c")>>}
PageAnswers == {Fault, NoPage} \cup {Page(rows) : rows \in PageRows}

\* the answer to the i-th request; a remote whose script has run out has no
\* more rows
remote(script, i) == IF i <= Len(script) THEN script[i] ELSE NoPage

\* axl_request(**kwargs, first=1000, skip=skip)
page_request(kwargs, skip) ==
    dict_set(dict_set(kwargs, "first", IntV(First)), "skip", IntV(skip))

\* where an iteration of the loop leaves the call
Iteration(at, data, skip, result) ==
    [pc |-> at, data |-> data, skip |-> skip, result |-> result]

\* a Fault ends the loop like an empty answer: the rows so far are returned
chunk_iteration_RowsOnFault(data_label, data, skip, answer) ==
    IF answer = Fault THEN Iteration("done", data, skip, List(data))
    ELSE LET recv == ValueOf(answer, "return")
         IN  IF recv # None
             THEN Iteration("loop", data \o ValueOf(recv, data_label).elems,
                            skip + SkipStep, None)
             ELSE Iteration("done", data, skip, List(data))

\* one iteration of `while recv is not None`, the remote having answered;
\* with recv None the loop ends and data is returned
chunk_iteration(data_label, data, skip, answer) ==
    IF answer = Fault THEN Iteration("done", data, skip, Raised("AXLFault"))
    ELSE LET recv == ValueOf(answer, "return")
         IN  IF recv # None
             THEN Iteration("loop", data \o ValueOf(recv, data_label).elems,
                            skip + SkipStep, None)
             ELSE Iteration("done", data, skip, List(data))

\* _chunk_data is called: skip = 0, recv = dict(), data = []
ChunkCall ==
    /\ c_pc = "idle"
    /\ c_remote' \in SeqsUpTo(PageAnswers, MaxPages)
    /\ c_requests' = <<>>
    /\ c_skip' = 0
    /\ c_data' = <<>>
    /\ c_ret' = None
    /\ c_pc' = "loop"
    /\ UNCHANGED <<schema, extractVars, wrapVars, shapeVars, opsVars,
                   threadVars, cacheVars>>

\* one request and what the loop does with its answer
ChunkRequest ==
    /\ c_pc = "loop"
    /\ LET it == chunk_iteration(DataLabel, c_data, c_skip,
                                 remote(c_remote, Len(c_requests) + 1))
       IN  /\ c_requests' = Append(c_requests, page_request(ListKwargs, c_skip))
           /\ c_data' = it.data
           /\ c_skip' = it.skip
           /\ c_ret' = it.result
           /\ c_pc' = it.pc
    /\ UNCHANGED <<c_remote, schema, extractVars, wrapVars, shapeVars, opsVars,
                   threadVars, cacheVars>>

InitChunk ==
    /\ schema = AXLElement({})
    /\ ExtractIdle
    /\ WrapIdle
    /\ ShapeIdle
    /\ ToolsIdle

NextChunk == ChunkCall \/ ChunkRequest

\* the loop runs in the caller's thread: a call that has begun goes on
SpecChunk == InitChunk /\ [][NextChunk]_vars /\ WF_vars(ChunkRequest)

(***************************************************************************)
(* C30 pagination                                                          *)
(***************************************************************************)
IsPage(answer) == answer # Fault /\ ValueOf(answer, "return") # None

\* the first request the remote answers with no page or with a Fault
FirstStop ==
    CHOOSE i \in 1..(Len(c_remote) + 1) :
        /\ ~IsPage(remote(c_remote, i))
        /\ \A j \in 1..(i - 1) : IsPage(remote(c_remote, j))

\* the rows of the first n answers, in order
RECURSIVE RowsUpTo(_)
RowsUpTo(n) ==
    IF n = 0 THEN <<>>
    ELSE RowsUpTo(n - 1)
         \o ValueOf(ValueOf(remote(c_remote, n), "return"), DataLabel).elems

ChunkRunning == c_pc = "loop"
ChunkDone == c_pc = "done"

\* the requests so far, the rows gathered and the outcome are as paging in
\* steps of 1000 up to the first stop makes them
PagedInOrder ==
    /\ \A i \in 1..Len(c_requests) :
          c_requests[i] = dict_set(dict_set(ListKwargs, "first", IntV(1000)),
                                   "skip", IntV(1000 * (i - 1)))
    /\ Len(c_requests) <= FirstStop
    /\ ChunkRunning => c_data = RowsUpTo(Len(c_requests))
    /\ ChunkDone =>
          /\ Len(c_requests) = FirstStop
          /\ IF remote(c_remote, FirstStop) = Fault
             THEN c_ret = Raised("AXLFault")
             ELSE c_ret = List(RowsUpTo(FirstStop - 1))

MaxCalls == 3

\* method.__name__ of the caller at axl.py 4097
MethodName == "get_phone_lines"

\* what the i-th call returns, and what it raises
Result(i) == [t |-> "result", call |-> i]
Exc(i) == [t |-> "exception", call |-> i]
IsExc(outcome) == outcome.t = "exception"

\* a future: pending in the executor's queue, running in a worker, finished,
\* or cancelled; outcome is what the call comes to once it has run
Future(state, outcome) == [state |-> state, outcome |-> outcome]

\* MultithreadException(method.__name__, axl_futs[fut], exc)
MultithreadException(method_name, kwargs, exc) ==
    [exception |-> "MultithreadException", method |-> method_name,
     kwargs |-> kwargs, exc |-> exc]

\* the exception names the keywords of the call submitted first
fail_with_FirstKwargs(method_name, kwargs_list, futs, i) ==
    Raised(MultithreadException(method_name, kwargs_list[1], futs[i].outcome))

\* raise MultithreadException(...) for the future as_completed has yielded
fail_with(method_name, kwargs_list, futs, i) ==
    Raised(MultithreadException(method_name, kwargs_list[i], futs[i].outcome))

\* ex.shutdown(wait=False, cancel_futures=True): what waits in the queue is
\* cancelled, what runs goes on
cancel_futures(futs) ==
    [i \in 1..Len(futs) |->
        IF futs[i].state = "pending" THEN Future("cancelled", futs[i].outcome)
        ELSE futs[i]]

\* {kw[catagorize_by]: f.result() for f, kw in axl_futs.items()}, from the
\* i-th future on
RECURSIVE results_by_key(_, _, _, _, _)
results_by_key(kwargs_list, futs, key, i, acc) ==
    IF i > Len(futs) THEN acc
    ELSE results_by_key(kwargs_list, futs, key, i + 1,
                        dict_set(acc, ValueOf(kwargs_list[i], key).s,
                                 futs[i].outcome))

\* the results in the order as_completed yielded the futures
collect_AsCompleted(kwargs_list, futs, yielded, catagorize_by) ==
    IF catagorize_by # None
    THEN results_by_key(kwargs_list, futs, catagorize_by.s, 1, Dict(<<>>))
    ELSE List([i \in 1..Len(yielded) |-> futs[yielded[i]].outcome])

\* the two return statements: axl_futs keeps the order of submission
collect(kwargs_list, futs, yielded, catagorize_by) ==
    IF catagorize_by # None
    THEN results_by_key(kwargs_list, futs, catagorize_by.s, 1, Dict(<<>>))
    ELSE List([i \in 1..Len(futs) |-> futs[i].outcome])

\* the keywords of one call: the device it is about
ThreadKwargs ==
    {Dict(<<Item("name", StrV(n)), Item("main_line_only", BoolV(TRUE))>>) :
        n \in {"AN1", "AN2"}}

\* _multithread is called and submits every call; each call will return or
\* raise
MultithreadCall ==
    /\ m_pc = "idle"
    /\ \E kl \in SeqsUpTo(ThreadKwargs, MaxCalls), c \in {None, StrV("name")} :
          \E raises \in SUBSET (1..Len(kl)) :
             /\ m_kwargs_list' = kl
             /\ m_catagorize_by' = c
             /\ m_futs' = [i \in 1..Len(kl) |->
                             Future("pending",
                                    IF i \in raises THEN Exc(i) ELSE Result(i))]
    /\ m_yielded' = <<>>
    /\ m_cancel' = FALSE
    /\ m_ret' = None
    /\ m_pc' = "waiting"
    /\ UNCHANGED <<schema, extractVars, wrapVars, shapeVars, opsVars,
                   chunkVars, cacheVars>>

\* a worker takes the next call from the executor's queue
WorkerStart ==
    /\ m_pc \in {"waiting", "raising"}
    /\ \E i \in 1..Len(m_futs) :
          /\ m_futs[i].state = "pending"
          /\ \A j \in 1..(i - 1) : m_futs[j].state # "pending"
          /\ m_futs' = [m_futs EXCEPT ![i].state = "running"]
    /\ UNCHANGED <<m_pc, m_kwargs_list, m_catagorize_by, m_yielded, m_cancel,
                   m_ret, schema, extractVars, wrapVars, shapeVars, opsVars,
                   chunkVars, cacheVars>>

\* a worker's call returns or raises
WorkerFinish ==
    /\ m_pc \in {"waiting", "raising"}
    /\ \E i \in 1..Len(m_futs) :
          /\ m_futs[i].state = "running"
          /\ m_futs' = [m_futs EXCEPT ![i].state = "finished"]
    /\ UNCHANGED <<m_pc, m_kwargs_list, m_catagorize_by, m_yielded, m_cancel,
                   m_ret, schema, extractVars, wrapVars, shapeVars, opsVars,
                   chunkVars, cacheVars>>

\* as_completed yields a finished future and the loop body runs on it
Observe ==
    /\ m_pc = "waiting"
    /\ \E i \in 1..Len(m_futs) :
          /\ m_futs[i].state = "finished"
          /\ \A n \in 1..Len(m_yielded) : m_yielded[n] # i
          /\ m_yielded' = Append(m_yielded, i)
          /\ IF IsExc(m_futs[i].outcome)
             THEN /\ m_cancel' = TRUE
                  /\ m_futs' = cancel_futures(m_futs)
                  /\ m_ret' = fail_with(MethodName, m_kwargs_list, m_futs, i)
                  /\ m_pc' = "raising"
             ELSE UNCHANGED <<m_cancel, m_futs, m_ret, m_pc>>
    /\ UNCHANGED <<m_kwargs_list, m_catagorize_by, schema, extractVars,
                   wrapVars, shapeVars, opsVars, chunkVars, cacheVars>>

\* the exception leaves the with block, whose exit waits for the workers
Propagate ==
    /\ m_pc = "raising"
    /\ \A i \in 1..Len(m_futs) : m_futs[i].state # "running"
    /\ m_pc' = "done"
    /\ UNCHANGED <<m_kwargs_list, m_catagorize_by, m_futs, m_yielded, m_cancel,
                   m_ret, schema, extractVars, wrapVars, shapeVars, opsVars,
                   chunkVars, cacheVars>>

\* as_completed is exhausted and the results are collected
Return ==
    /\ m_pc = "waiting"
    /\ Len(m_yielded) = Len(m_futs)
    /\ m_ret' = collect(m_kwargs_list, m_futs, m_yielded, m_catagorize_by)
    /\ m_pc' = "done"
    /\ UNCHANGED <<m_kwargs_list, m_catagorize_by, m_futs, m_yielded, m_cancel,
                   schema, extractVars, wrapVars, shapeVars, opsVars,
                   chunkVars, cacheVars>>

InitThreads ==
    /\ schema = AXLElement({})
    /\ ExtractIdle
    /\ WrapIdle
    /\ ShapeIdle
    /\ ToolsIdle

NextThreads ==
    MultithreadCall \/ WorkerStart \/ WorkerFinish \/ Observe \/ Propagate
    \/ Return

SpecThreads == InitThreads /\ [][NextThreads]_vars

(***************************************************************************)
(* C28 the results of _multithread                                         *)
(***************************************************************************)
ThreadsDone == m_pc = "done"
Entries == 1..Len(m_kwargs_list)

\* none of the submitted calls raises
NoneRaises == \A i \in Entries : ~IsExc(m_futs[i].outcome)

\* the key the i-th entry is categorised under
KeyOf(i) == ValueOf(m_kwargs_list[i], m_catagorize_by.s).s

\* the last entry categorised under the key of the i-th
LastOfKey(i) ==
    CHOOSE j \in Entries :
        /\ KeyOf(j) = KeyOf(i)
        /\ \A n \in Entries : KeyOf(n) = KeyOf(i) => n <= j

\* the results come in the order of kwargs_list, one for each entry
InSubmissionOrder ==
    /\ IsList(m_ret)
    /\ Len(m_ret.elems) = Len(m_kwargs_list)
    /\ \A i \in Entries : m_ret.elems[i] = Result(i)

\* the workers finished in another order than the calls were submitted
OutOfOrder ==
    \E a \in 1..Len(m_yielded) : \E b \in 1..Len(m_yielded) :
        a < b /\ m_yielded[a] > m_yielded[b]

\* C28 as stated: when no call raises there is one result for each entry of
\* kwargs_list; without catagorize_by the i-th is that of the call made with
\* kwargs_list[i], and with catagorize_by each result is stored under
\* kw[catagorize_by] of its call.
C28_OneResultPerEntry ==
    (ThreadsDone /\ NoneRaises) =>
        IF m_catagorize_by = None THEN InSubmissionOrder
        ELSE /\ IsDict(m_ret)
             /\ Len(m_ret.items) = Len(m_kwargs_list)
             /\ \A i \in Entries : Holds(m_ret, KeyOf(i), Result(i))

\* C28 amended: without catagorize_by the i-th result is that of the call
\* made with kwargs_list[i]; with catagorize_by the mapping has one key for
\* each distinct kw[catagorize_by], holding the result of the last entry of
\* kwargs_list with that key.
C28_OneResultPerKey ==
    (ThreadsDone /\ NoneRaises) =>
        IF m_catagorize_by = None THEN InSubmissionOrder
        ELSE /\ IsDict(m_ret)
             /\ Keys(m_ret) = {KeyOf(i) : i \in Entries}
             /\ Len(m_ret.items) = Cardinality({KeyOf(i) : i \in Entries})
             /\ \A i \in Entries :
                   Holds(m_ret, KeyOf(i), Result(LastOfKey(i)))

\* three calls, two of them about one device, finished out of order and
\* came back under two keys
C28_Witness ==
    /\ ThreadsDone /\ NoneRaises
    /\ m_catagorize_by # None
    /\ Len(m_kwargs_list) = 3
    /\ OutOfOrder
    /\ IsDict(m_ret) /\ Len(m_ret.items) = 2
    /\ \E i \in Entries : LastOfKey(i) # i

(***************************************************************************)
(* C29 _multithread fails as a whole                                       *)
(***************************************************************************)
\* the call ended with MultithreadException for the i-th entry
RaisedFor(i) ==
    m_ret = Raised(MultithreadException(MethodName, m_kwargs_list[i], Exc(i)))

\* C29: when a submitted call raises, _multithread raises
\* MultithreadException with the method's name and the keywords and the
\* exception of a call that failed, has asked for the calls that have not
\* started to be cancelled, and gives no results back, however the workers'
\* completions interleave.
C29_FailsAsAWhole ==
    (ThreadsDone /\ ~NoneRaises) =>
        /\ \E i \in Entries :
              /\ m_futs[i].state = "finished"
              /\ IsExc(m_futs[i].outcome)
              /\ RaisedFor(i)
        /\ m_cancel
        /\ \A i \in Entries : m_futs[i].state \in {"finished", "cancelled"}

\* a call failed after another had returned and before a third had started
C29_Witness ==
    /\ ThreadsDone
    /\ \E i \in Entries : RaisedFor(i) /\ i > 1
    /\ \E i \in Entries :
          m_futs[i].state = "finished" /\ ~IsExc(m_futs[i].outcome)
    /\ \E i \in Entries : m_futs[i].state = "cancelled"

(***************************************************************************)
(* The cache of schema trees behind get_tree                               *)
(***************************************************************************)
\* most worker threads looking trees up at a time
MaxThreads == 3

\* the operations trees are asked for
OperationNames == {"addLine", "getLine"}

\* the tree of an operation, fully constructed
parse_schema(element_name) ==
    AXLElement(IF element_name = "addLine" THEN {2, 3} ELSE {})

\* a tree under construction counts as built from its root node on
ready_FromRoot(tree, element_name) == Len(tree) >= 1

\* a tree under construction is built when its last node is in place
ready(tree, element_name) == Len(tree) = Len(parse_schema(element_name))

\* the tree under construction with its next node added
add_node(tree, element_name) ==
    Append(tree, parse_schema(element_name)[Len(tree) + 1])

\* the cache with the tree entered under the name, unless the name has an
\* entry: the first loader wins
publish(cache, element_name, tree) ==
    IF HasKey(Dict(cache), element_name) THEN cache
    ELSE Append(cache, Item(element_name, tree))

\* a worker thread inside get_tree: where it is, the name it asks for, the
\* tree it is constructing and the tree it was given
TreeThread(at, element_name, tree, got) ==
    [pc |-> at, name |-> element_name, tree |-> tree, got |-> got]

\* a worker thread calls get_tree(self.zeep, element_name)
GetTree ==
    /\ Len(k_threads) < MaxThreads
    /\ \E element_name \in OperationNames :
          k_threads' = Append(k_threads, TreeThread("lookup", element_name, <<>>, <<>>))
    /\ UNCHANGED <<k_cache, schema, extractVars, wrapVars, shapeVars, opsVars,
                   chunkVars, threadVars>>

\* the thread finds the tree in the cache, or sets out to construct it
CacheLookup ==
    /\ \E i \in 1..Len(k_threads) :
          LET th == k_threads[i]
          IN  /\ th.pc = "lookup"
              /\ k_threads' =
                    [k_threads EXCEPT ![i] =
                        IF HasKey(Dict(k_cache), th.name)
                        THEN TreeThread("done", th.name, <<>>,
                                     ValueOf(Dict(k_cache), th.name))
                        ELSE TreeThread("build", th.name, <<>>, <<>>)]
    /\ UNCHANGED <<k_cache, schema, extractVars, wrapVars, shapeVars, opsVars,
                   chunkVars, threadVars>>

\* the thread adds a node to the tree it is constructing
CacheBuild ==
    /\ \E i \in 1..Len(k_threads) :
          LET th == k_threads[i]
          IN  /\ th.pc = "build"
              /\ ~ready(th.tree, th.name)
              /\ k_threads' =
                    [k_threads EXCEPT ![i].tree = add_node(th.tree, th.name)]
    /\ UNCHANGED <<k_cache, schema, extractVars, wrapVars, shapeVars, opsVars,
                   chunkVars, threadVars>>

\* the thread enters the tree it has constructed and returns the cached one
CachePublish ==
    /\ \E i \in 1..Len(k_threads) :
          LET th == k_threads[i]
          IN  /\ th.pc = "build"
              /\ ready(th.tree, th.name)
              /\ k_cache' = publish(k_cache, th.name, th.tree)
              /\ k_threads' =
                    [k_threads EXCEPT ![i] =
                        TreeThread("done", th.name, th.tree,
                                ValueOf(Dict(publish(k_cache, th.name, th.tree)),
                                        th.name))]
    /\ UNCHANGED <<schema, extractVars, wrapVars, shapeVars, opsVars,
                   chunkVars, threadVars>>

InitCache ==
    /\ schema = AXLElement({})
    /\ ExtractIdle
    /\ WrapIdle
    /\ ShapeIdle
    /\ ToolsIdle

NextCache == GetTree \/ CacheLookup \/ CacheBuild \/ CachePublish

SpecCache == InitCache /\ [][NextCache]_vars

(***************************************************************************)
(* C21 the cache under concurrency                                         *)
(***************************************************************************)
\* every tree in the cache and every tree a lookup returned is complete,
\* and a name has one entry
CacheSound ==
    /\ \A i \in 1..Len(k_cache) : k_cache[i].v = parse_schema(k_cache[i].k)
    /\ \A i \in 1..Len(k_cache) : \A j \in 1..Len(k_cache) :
          k_cache[i].k = k_cache[j].k => i = j
    /\ \A i \in 1..Len(k_threads) :
          k_threads[i].pc = "done" =>
              k_threads[i].got = parse_schema(k_threads[i].name)

\* an entry of the cache stays, with the tree it has
CacheStable ==
    \A i \in 1..Len(k_cache) :
        i <= Len(k_cache') /\ k_cache'[i] = k_cache[i]

\* C21: with worker threads looking up trees of the same and of different
\* operations at once, no lookup returns a partially constructed tree, a
\* tree is in the cache only once it is fully built, and a tree entered
\* for a name is never removed or replaced; two threads may construct the
\* tree of one operation at the same time.
C21_CacheSafe == []CacheSound /\ [][CacheStable]_vars

\* two threads constructed the tree of one operation at the same time, both
\* came back with the complete tree, and the cache holds it once
C21_Witness ==
    /\ Len(k_cache) = 1
    /\ \E i \in 1..Len(k_threads) : \E j \in 1..Len(k_threads) :
          /\ i # j
          /\ k_threads[i].name = k_threads[j].name
          /\ k_threads[i].pc = "done" /\ k_threads[j].pc = "done"
          /\ k_threads[i].tree # <<>> /\ k_threads[j].tree # <<>>
          /\ k_threads[i].got = parse_schema(k_threads[i].name)

====
